---- MODULE Spec2Model ----
(***************************************************************************)
(* Model of the markdown log maintenance of the Polymarket price monitor   *)
(* (src/markdown_writer.py): write_market_data reads the log file, renders *)
(* the record, merges the entry into the text and writes the file back.    *)
(*                                                                         *)
(* Text representation.  A Python str is modelled by the list of its       *)
(* lines, i.e. by s.split('\n'): a non-empty sequence of lines.  A line is *)
(* a sequence of tokens, each token a run of characters that holds no      *)
(* newline.  The characters the code inspects ('#', ' ') are tokens of     *)
(* their own, so that startswith() and strip() are computed on the text.   *)
(* The token "[chart] Market Update" stands for the heading text that      *)
(* begins with the bar chart emoji.                                        *)
(*                                                                         *)
(* The module also holds the web scraper (src/web_scraper_client.py),     *)
(* whose texts are lists of characters, and the price agent with its API  *)
(* client and its sheet (src/polymarket_agent.py, polymarket_client.py,   *)
(* google_sheets_client.py).  Each component has a specification of its   *)
(* own in which the other components are at rest.                         *)
(***************************************************************************)
EXTENDS Integers, Sequences, FiniteSets, TLC

\* ------------------------------------------------------------------ bounds
MaxWrites == 3
MaxCap == 2
MaxFaults == 1
MaxNumber == 102
MaxRaising == 2

\* update cycles of the agent in one run
MaxCycles == 2

\* ---------------------------------------------------------- configuration
UPDATE_INTERVAL_MINUTES == 10

\* ------------------------------------------------------------ str helpers
EmptyStr == << <<>> >>

NL == << <<>>, <<>> >>

Whitespace == {" ", "\t"}

\* str + str
Cat(a, b) == SubSeq(a, 1, Len(a) - 1) \o << a[Len(a)] \o b[1] >> \o Tail(b)

\* line.startswith(prefix)
StartsWith(line, prefix) ==
    /\ Len(line) >= Len(prefix)
    /\ SubSeq(line, 1, Len(prefix)) = prefix

\* bool(line.strip())
StripNonEmpty(line) == \E i \in 1..Len(line) : line[i] \notin Whitespace

\* a test for the empty str that forgets strip()
IsBlankExact(content) == content = EmptyStr

\* not content.strip()
IsBlank(content) == \A i \in 1..Len(content) : ~StripNonEmpty(content[i])

\* content.split('\n'): the list of one-line strs
Split(content) == [i \in 1..Len(content) |-> << content[i] >>]

RECURSIVE Join(_)
\* '\n'.join(parts), each part a str that may itself hold newlines: the lines
\* of the parts one after the other (joined half by half)
Join(parts) ==
    IF Len(parts) = 0 THEN EmptyStr
    ELSE IF Len(parts) = 1 THEN parts[1]
    ELSE LET half == Len(parts) \div 2
         IN Join(SubSeq(parts, 1, half)) \o Join(SubSeq(parts, half + 1, Len(parts)))

\* list.insert(index, item), index 0-based and within the list
ListInsert(list, index, item) ==
    SubSeq(list, 1, index) \o << item >> \o SubSeq(list, index + 1, Len(list))

H1 == << "#", " " >>
H2 == << "#", "#" >>
EntryMarker == << "#", "#", " ", "[chart] Market Update" >>
ErrorMarker == << "#", "#", " ", "Error" >>

\* datetime.now() rendered; n is the reading of the clock
NowText(n) == "now" \o ToString(n)

\* ------------------------------------------------------------ rendering
\* An ISO-8601 timestamp is the token list <<date, "T", time>>.
IsIso(ts) == Len(ts) = 3 /\ ts[2] = "T"

\* datetime.fromisoformat(...).strftime('%Y-%m-%d %H:%M:%S UTC'), and the raw
\* timestamp when parsing it raises
FormatTime(ts) == IF IsIso(ts) THEN << ts[1], " ", ts[3], " UTC" >> ELSE ts

\* An outcome's price is None or a float; a float is held exactly, as its
\* number of ten-thousandths (0.65 is 6500, 45.0 is 450000).
NoPrice == [none |-> TRUE, e4 |-> 0]

Float(e4) == [none |-> FALSE, e4 |-> e4]

\* n / d rounded to the nearest integer, ties to even, as format() rounds
RoundDiv(n, d) ==
    LET q == n \div d
        r == n % d
    IN IF 2 * r > d \/ (2 * r = d /\ q % 2 = 1) THEN q + 1 ELSE q

RECURSIVE Digits(_, _)
\* the last width decimal digits of n, zero-padded
Digits(n, width) ==
    IF width = 0 THEN ""
    ELSE Digits(n \div 10, width - 1) \o ToString(n % 10)

\* f"{x:.1f}" of the number whose tenths are n
Fixed1(n) == ToString(n \div 10) \o "." \o Digits(n, 1)

\* f"{x:.2f}" of the number whose hundredths are n
Fixed2(n) == ToString(n \div 100) \o "." \o Digits(n, 2)

\* str(x) of a float: the digits after the point without trailing zeros
FloatRepr(e4) ==
    LET f == e4 % 10000
    IN ToString(e4 \div 10000) \o "."
       \o (IF f % 1000 = 0 THEN Digits(f \div 1000, 1)
           ELSE IF f % 100 = 0 THEN Digits(f \div 100, 2)
           ELSE IF f % 10 = 0 THEN Digits(f \div 10, 3)
           ELSE Digits(f, 4))

\* price_display of one outcome
PriceDisplay(price) ==
    IF price.none THEN "N/A"
    ELSE IF price.e4 <= 10000 THEN "$" \o Fixed2(RoundDiv(price.e4, 100))
    ELSE FloatRepr(price.e4) \o "[cent]"

\* probability of one outcome
Probability(price) ==
    IF price.none THEN "N/A"
    ELSE IF price.e4 <= 10000 THEN Fixed1(RoundDiv(price.e4, 10)) \o "%"
    ELSE Fixed1(RoundDiv(price.e4, 1000)) \o "%"

OutcomeRow(outcome) ==
    << << "| ", outcome.name, " | ", PriceDisplay(outcome.price), " | ",
          Probability(outcome.price), " |" >>, <<>> >>

RECURSIVE OutcomeRows(_)
OutcomeRows(outcomes) ==
    IF Len(outcomes) = 0 THEN EmptyStr
    ELSE Cat(OutcomeRow(Head(outcomes)), OutcomeRows(Tail(outcomes)))

MarketBlock(market) ==
    Cat(<< << "#", "#", "#", "#", " ", market.question >>, <<>>, <<>> >>,
        IF Len(market.outcomes) > 0
        THEN Cat(Cat(<< << "| Outcome | Price | Probability |" >>,
                        << "|---------|-------|-------------|" >>, <<>> >>,
                     OutcomeRows(market.outcomes)),
                 NL)
        ELSE << << "*No price data available*" >>, <<>>, <<>> >>)

RECURSIVE MarketBlocks(_)
MarketBlocks(markets) ==
    IF Len(markets) = 0 THEN EmptyStr
    ELSE Cat(MarketBlock(Head(markets)), MarketBlocks(Tail(markets)))

\* market.get(...) raises AttributeError on an element that is no dict
FormatRaises(market_data) ==
    \E i \in 1..Len(market_data.markets) : ~market_data.markets[i].isdict

ErrorStub(now) ==
    << <<>>,
       << "#", "#", " ", "Error", " - ", NowText(now) >>,
       << "Failed to format market data: ",
          "'str' object has no attribute 'get'" >>,
       <<>>,
       << "---" >>,
       <<>>,
       <<>> >>

EntryHead(market_data) ==
    << <<>>,
       EntryMarker \o << " - " >> \o FormatTime(market_data.timestamp),
       <<>>,
       << "#", "#", "#", " ", "Market Information" >>,
       << "- **Title:** ", market_data.title >>,
       << "- **URL:** [", market_data.url, "](", market_data.url, ")" >>,
       << "- **Status:** ", market_data.status >>,
       << "- **End Date:** ", market_data.end_date >>,
       << "- **Volume:** ", market_data.volume >>,
       << "- **Liquidity:** ", market_data.liquidity >>,
       <<>>,
       << "#", "#", "#", " ", "Description" >>,
       << market_data.description >>,
       <<>>,
       <<>> >>

\* MarkdownWriter._format_market_data
FormatMarketData(market_data, now) ==
    IF FormatRaises(market_data) THEN ErrorStub(now)
    ELSE Cat(Cat(EntryHead(market_data),
                 IF Len(market_data.markets) > 0
                 THEN Cat(<< << "#", "#", "#", " ", "Market Prices" >>, <<>>, <<>> >>,
                          MarketBlocks(market_data.markets))
                 ELSE << << "#", "#", "#", " ", "No Market Data Found" >>,
                         <<>>,
                         << "Could not extract market prices from the webpage." >>,
                         <<>>,
                         <<>> >>),
             << << "---" >>, <<>>, <<>> >>)

\* -------------------------------------------------------------- merging
\* MarkdownWriter._create_header
CreateHeader(now) ==
    << << "#", " ", "Polymarket Price Monitor" >>,
       <<>>,
       << "*Automated monitoring of Polymarket prediction markets*" >>,
       <<>>,
       << "**Started:** ", NowText(now), " UTC", " ", " " >>,
       << "**Update Interval:** ", ToString(UPDATE_INTERVAL_MINUTES), " minutes" >>,
       <<>>,
       <<>> >>

TruncationFooter(max_entries) ==
    << "*Older entries truncated (showing last ", ToString(max_entries),
       " updates)*" >>

\* the scan of _limit_entries taking every level-2 heading of a cycle, the
\* heading of an error stub too, for an entry start
EntryStartsCountsStubs(lines, n) ==
    LET IsStart(i) ==
            /\ ~StartsWith(lines[i], H1)
            /\ StartsWith(lines[i], EntryMarker) \/ StartsWith(lines[i], ErrorMarker)
    IN SelectSeq([i \in 1..n |-> i], IsStart)

\* the scan of _limit_entries: the 1-based indices, in order, of the
\* entry-start lines among the first n lines
EntryStarts(lines, n) ==
    LET IsStart(i) ==
            ~StartsWith(lines[i], H1) /\ StartsWith(lines[i], EntryMarker)
    IN SelectSeq([i \in 1..n |-> i], IsStart)

\* _limit_entries with the comparison off by one: one entry too many is kept
LimitEntriesOffByOne(content, max_entries) ==
    LET entry_starts == EntryStarts(content, Len(content))
    IN IF Len(entry_starts) > max_entries + 1
       THEN LET cutoff_index == entry_starts[max_entries + 2] - 1
            IN SubSeq(content, 1, cutoff_index)
               \o << << "---" >>, TruncationFooter(max_entries), <<>> >>
       ELSE content

\* _limit_entries cutting one entry too early
LimitEntriesDropsOneMore(content, max_entries) ==
    LET entry_starts == EntryStarts(content, Len(content))
    IN IF Len(entry_starts) > max_entries
       THEN LET cutoff_index == entry_starts[max_entries] - 1
            IN SubSeq(content, 1, cutoff_index)
               \o << << "---" >>, TruncationFooter(max_entries), <<>> >>
       ELSE content

\* the footer states the number of entries dropped
LimitEntriesCountsDropped(content, max_entries) ==
    LET entry_starts == EntryStarts(content, Len(content))
    IN IF Len(entry_starts) > max_entries
       THEN LET cutoff_index == entry_starts[max_entries + 1] - 1
            IN SubSeq(content, 1, cutoff_index)
               \o << << "---" >>,
                     TruncationFooter(Len(entry_starts) - max_entries),
                     <<>> >>
       ELSE content

\* _limit_entries adding its footer without cutting the text
LimitEntriesKeepsAll(content, max_entries) ==
    LET entry_starts == EntryStarts(content, Len(content))
    IN IF Len(entry_starts) > max_entries
       THEN content \o << << "---" >>, TruncationFooter(max_entries), <<>> >>
       ELSE content

\* MarkdownWriter._limit_entries
LimitEntries(content, max_entries) ==
    LET entry_starts == EntryStarts(content, Len(content))
    IN IF Len(entry_starts) > max_entries
       THEN LET cutoff_index == entry_starts[max_entries + 1] - 1
            IN SubSeq(content, 1, cutoff_index)
               \o << << "---" >>, TruncationFooter(max_entries), <<>> >>
       ELSE content

RECURSIVE SkipDescription(_, _)
\* the while loop of _combine_content; insert_index is 0-based
SkipDescription(lines, insert_index) ==
    IF /\ insert_index < Len(lines)
       /\ ~StartsWith(lines[insert_index + 1][1], H2)
       /\ StripNonEmpty(lines[insert_index + 1][1])
    THEN SkipDescription(lines, insert_index + 1)
    ELSE insert_index

\* the insertion point of a writer that appends the new entry at the bottom
InsertIndexAppend(lines) == Len(lines)

\* a fallback that inserts below the first line instead of above it
InsertIndexBelowFirstLine(lines) ==
    IF StartsWith(lines[1][1], H1) THEN SkipDescription(lines, 1) ELSE 1

InsertIndex(lines) ==
    IF StartsWith(lines[1][1], H1) THEN SkipDescription(lines, 1) ELSE 0

\* _combine_content that skips an entry already on top of the document
CombineContentDedup(existing_content, new_entry, max_entries, now, raises) ==
    IF raises THEN Cat(Cat(existing_content, NL), new_entry)
    ELSE LET content ==
                 IF IsBlank(existing_content)
                 THEN Cat(CreateHeader(now), new_entry)
                 ELSE LET lines == Split(existing_content)
                          starts == EntryStarts(existing_content,
                                                Len(existing_content))
                      IN IF /\ Len(starts) > 0
                            /\ existing_content[starts[1]] = new_entry[2]
                         THEN existing_content
                         ELSE Join(ListInsert(lines, InsertIndex(lines), new_entry))
         IN IF max_entries > 0 THEN LimitEntries(content, max_entries)
            ELSE content

\* _combine_content that applies the cap when max_entries is 0 as well
CombineContentCapsAtZero(existing_content, new_entry, max_entries, now, raises) ==
    IF raises THEN Cat(Cat(existing_content, NL), new_entry)
    ELSE LET content ==
                 IF IsBlank(existing_content)
                 THEN Cat(CreateHeader(now), new_entry)
                 ELSE LET lines == Split(existing_content)
                      IN Join(ListInsert(lines, InsertIndex(lines), new_entry))
         IN IF max_entries >= 0 THEN LimitEntries(content, max_entries)
            ELSE content

\* MarkdownWriter._combine_content; raises: an exception inside its try block
CombineContent(existing_content, new_entry, max_entries, now, raises) ==
    IF raises THEN Cat(Cat(existing_content, NL), new_entry)
    ELSE LET content ==
                 IF IsBlank(existing_content)
                 THEN Cat(CreateHeader(now), new_entry)
                 ELSE LET lines == Split(existing_content)
                      IN Join(ListInsert(lines, InsertIndex(lines), new_entry))
         IN IF max_entries > 0 THEN LimitEntries(content, max_entries)
            ELSE content

\* ------------------------------------------------------- outcome parsing
\* The text of an HTML element is the sequence of its characters, each a
\* one-character string; "[cent]" stands for the cent sign.
DigitChars == << "0", "1", "2", "3", "4", "5", "6", "7", "8", "9" >>

Cent == "[cent]"

IsDigit(c) == \E d \in 1..10 : DigitChars[d] = c

DigitValue(c) == (CHOOSE d \in 1..10 : DigitChars[d] = c) - 1

IsDigitAt(chars, i) == i >= 1 /\ i <= Len(chars) /\ IsDigit(chars[i])

RECURSIVE DigitsEnd(_, _)
\* \d+ from the digit at i, greedy: the position of the last digit of the run
DigitsEnd(chars, i) ==
    IF IsDigitAt(chars, i + 1) THEN DigitsEnd(chars, i + 1) ELSE i

\* \d+(?:\.\d+)? from the digit at i, greedy: the position of its last character
NumberEnd(chars, i) ==
    LET j == DigitsEnd(chars, i)
    IN IF j + 1 <= Len(chars) /\ chars[j + 1] = "." /\ IsDigitAt(chars, j + 2)
       THEN DigitsEnd(chars, j + 2)
       ELSE j

NoMatch == [start |-> 0, end |-> 0]

\* the leftmost position of the set, as re.search scans
Leftmost(positions) == CHOOSE i \in positions : \A k \in positions : i <= k

\* re.search(r'(\d+(?:\.\d+)?)[cent%]?', text): the span of group 1
PriceMatch(chars) ==
    LET starts == {i \in 1..Len(chars) : IsDigit(chars[i])}
    IN IF starts = {} THEN NoMatch
       ELSE [start |-> Leftmost(starts), end |-> NumberEnd(chars, Leftmost(starts))]

\* r'\d+(?:\.\d+)?%' matches at i: the number that starts at i is followed by
\* '%' (a shorter number at i is followed by a digit or a '.', never by '%')
PercentageAt(chars, i) ==
    /\ IsDigitAt(chars, i)
    /\ NumberEnd(chars, i) + 1 <= Len(chars)
    /\ chars[NumberEnd(chars, i) + 1] = "%"

\* re.search(r'(\d+(?:\.\d+)?)%', text): the span of group 1
PercentageMatch(chars) ==
    LET starts == {i \in 1..Len(chars) : PercentageAt(chars, i)}
    IN IF starts = {} THEN NoMatch
       ELSE [start |-> Leftmost(starts), end |-> NumberEnd(chars, Leftmost(starts))]

\* match.group(1)
Group(chars, match) == SubSeq(chars, match.start, match.end)

RECURSIVE Natural(_)
\* the number a run of digits denotes
Natural(digits) ==
    IF Len(digits) = 0 THEN 0
    ELSE 10 * Natural(SubSeq(digits, 1, Len(digits) - 1))
         + DigitValue(digits[Len(digits)])

\* float(group), in ten-thousandths: exact for up to four decimals
ParseFloat(group) ==
    LET j == DigitsEnd(group, 1)
        decimals == SubSeq(group, j + 2, Len(group)) \o << "0", "0", "0", "0" >>
    IN Natural(SubSeq(group, 1, j)) * 10000 + Natural(SubSeq(decimals, 1, 4))

RECURSIVE RemovePercentages(_, _)
\* re.sub(r'\d+(?:\.\d+)?%', '', text), from position i on
RemovePercentages(chars, i) ==
    IF i > Len(chars) THEN <<>>
    ELSE IF PercentageAt(chars, i)
         THEN RemovePercentages(chars, NumberEnd(chars, i) + 2)
         ELSE << chars[i] >> \o RemovePercentages(chars, i + 1)

RECURSIVE RemoveNumbers(_, _)
\* re.sub(r'\d+(?:\.\d+)?[cent%]?', '', text), from position i on
RemoveNumbers(chars, i) ==
    IF i > Len(chars) THEN <<>>
    ELSE IF IsDigit(chars[i])
         THEN LET e == NumberEnd(chars, i)
              IN RemoveNumbers(chars,
                     IF e + 1 <= Len(chars) /\ chars[e + 1] \in {Cent, "%"}
                     THEN e + 2 ELSE e + 1)
         ELSE << chars[i] >> \o RemoveNumbers(chars, i + 1)

\* str.strip()
Strip(chars) ==
    LET inked == {i \in 1..Len(chars) : chars[i] \notin Whitespace}
    IN IF inked = {} THEN <<>>
       ELSE SubSeq(chars, Leftmost(inked),
                   CHOOSE i \in inked : \A k \in inked : k <= i)

\* the price of the percentage branch
PercentagePrice(chars) ==
    ParseFloat(Group(chars, PercentageMatch(chars))) \div 100

\* the cents heuristic with the comparison turned into >=
PlainPriceFromHundred(chars) ==
    LET price_val == ParseFloat(Group(chars, PriceMatch(chars)))
    IN IF \E i \in 1..Len(chars) : chars[i] = Cent THEN price_val \div 100
       ELSE IF price_val >= 100 * 10000 THEN price_val \div 100
       ELSE price_val

\* the cents heuristic without its large-number branch
PlainPriceMarkedOnly(chars) ==
    LET price_val == ParseFloat(Group(chars, PriceMatch(chars)))
    IN IF \E i \in 1..Len(chars) : chars[i] = Cent THEN price_val \div 100
       ELSE price_val

\* the cents heuristic with both divisions applied to a marked large number
PlainPriceBothRules(chars) ==
    LET price_val == ParseFloat(Group(chars, PriceMatch(chars)))
        in_dollars ==
            IF \E i \in 1..Len(chars) : chars[i] = Cent
            THEN price_val \div 100 ELSE price_val
    IN IF price_val > 100 * 10000 THEN in_dollars \div 100 ELSE in_dollars

\* the price of the generic numeric branch
PlainPrice(chars) ==
    LET price_val == ParseFloat(Group(chars, PriceMatch(chars)))
    IN IF \E i \in 1..Len(chars) : chars[i] = Cent THEN price_val \div 100
       ELSE IF price_val > 100 * 10000 THEN price_val \div 100
       ELSE price_val

\* _parse_outcome_element returned None
NoOutcome == [returned |-> "None", name |-> <<>>, price |-> NoPrice]

Outcome(name, price) == [returned |-> "outcome", name |-> name, price |-> price]

\* the percentage branch that takes the price for a probability as it stands
ParseOutcomeTextRawPercent(chars) ==
    LET found ==
            IF PercentageMatch(chars) # NoMatch
            THEN Outcome(Strip(RemovePercentages(chars, 1)),
                         Float(ParseFloat(Group(chars, PercentageMatch(chars)))))
            ELSE IF PriceMatch(chars) # NoMatch
            THEN Outcome(Strip(RemoveNumbers(chars, 1)), Float(PlainPrice(chars)))
            ELSE Outcome(chars, NoPrice)
    IN IF Len(found.name) > 0 THEN found ELSE NoOutcome

\* _parse_outcome_element on the text of the element
ParseOutcomeText(chars) ==
    LET found ==
            IF PercentageMatch(chars) # NoMatch
            THEN Outcome(Strip(RemovePercentages(chars, 1)),
                         Float(PercentagePrice(chars)))
            ELSE IF PriceMatch(chars) # NoMatch
            THEN Outcome(Strip(RemoveNumbers(chars, 1)), Float(PlainPrice(chars)))
            ELSE Outcome(chars, NoPrice)
    IN IF Len(found.name) > 0 THEN found ELSE NoOutcome

\* ----------------------------------------------------------- the document
\* A parsed page is a tree of nodes: text nodes, which hold characters, and
\* elements, which hold a tag name, a class, the words of the data-testid
\* attribute, the name and content attributes (of a meta element) and child
\* nodes.
TextNode(chars) ==
    [kind |-> "text", chars |-> chars, tag |-> "", class |-> "",
     testid |-> <<>>, name |-> "", content |-> <<>>, children |-> <<>>]

Element(tag, class, testid, children) ==
    [kind |-> "element", chars |-> <<>>, tag |-> tag, class |-> class,
     testid |-> testid, name |-> "", content |-> <<>>, children |-> children]

Meta(name, content) ==
    [kind |-> "element", chars |-> <<>>, tag |-> "meta", class |-> "",
     testid |-> <<>>, name |-> name, content |-> content, children |-> <<>>]

RECURSIVE DescendantsOf(_)
\* the elements below a list of sibling nodes, in document order
DescendantsOf(nodes) ==
    IF Len(nodes) = 0 THEN <<>>
    ELSE (IF Head(nodes).kind = "element"
          THEN << Head(nodes) >> \o DescendantsOf(Head(nodes).children)
          ELSE <<>>)
         \o DescendantsOf(Tail(nodes))

RECURSIVE StringsOf(_, _)
\* the text nodes below a list of sibling nodes, in document order, each with
\* its parent element
StringsOf(nodes, parent) ==
    IF Len(nodes) = 0 THEN <<>>
    ELSE (IF Head(nodes).kind = "text"
          THEN << [chars |-> Head(nodes).chars, parent |-> parent] >>
          ELSE StringsOf(Head(nodes).children, Head(nodes)))
         \o StringsOf(Tail(nodes), parent)

RECURSIVE Concat(_)
\* ''.join(chunks)
Concat(chunks) ==
    IF Len(chunks) = 0 THEN <<>> ELSE Head(chunks) \o Concat(Tail(chunks))

\* element.get_text(strip=strip): the text nodes joined without a separator,
\* each of them stripped first when strip is set
GetText(element, strip) ==
    LET strings == StringsOf(element.children, element)
    IN Concat([i \in 1..Len(strings) |->
                  IF strip THEN Strip(strings[i].chars) ELSE strings[i].chars])

\* A CSS selector is a test on one element: by "tag", by "class", by the
\* exact data-testid ("testid="), by a word the data-testid contains
\* ("testid*=") or by the name of a meta element ("meta").
Selector(by, value) == [by |-> by, value |-> value]

Matches(element, selector) ==
    CASE selector.by = "tag" -> element.tag = selector.value
      [] selector.by = "class" -> element.class = selector.value
      [] selector.by = "testid=" ->
            Len(element.testid) > 0 /\ element.testid = selector.value
      [] selector.by = "testid*=" ->
            \E i \in 1..Len(element.testid) : element.testid[i] = selector.value
      [] selector.by = "meta" ->
            element.tag = "meta" /\ element.name = selector.value

\* element.select(selector)
Select(element, selector) ==
    LET IsMatch(e) == Matches(e, selector)
    IN SelectSeq(DescendantsOf(element.children), IsMatch)

\* the first selector of the list that selects anything: its position, or 0
FirstSelecting(element, selectors) ==
    LET hits == {i \in 1..Len(selectors) : Len(Select(element, selectors[i])) > 0}
    IN IF hits = {} THEN 0 ELSE Leftmost(hits)

\* ---------------------------------------------------------- the extractors
\* Each extractor runs inside its own try block.  raising is the set of the
\* extractors in whose body the document raises an exception.
\* the title loop followed by the default alone, without the page title
TitleFromDefaultOnly(soup, k) ==
    LET selectors == << Selector("tag", "h1"),
                        Selector("testid=", << "event", "title" >>),
                        Selector("class", "event-title"),
                        Selector("tag", "title") >>
        Good(j) == /\ Len(Select(soup, selectors[j])) > 0
                   /\ Len(GetText(Select(soup, selectors[j])[1], TRUE)) > 5
        good == {j \in k..Len(selectors) : Good(j)}
    IN IF good = {}
       THEN << "U", "n", "k", "n", "o", "w", "n", " ", "M", "a", "r", "k",
               "e", "t" >>
       ELSE GetText(Select(soup, selectors[CHOOSE j \in good :
                                              \A i \in good : j <= i])[1], TRUE)

RECURSIVE TitleFrom(_, _)
\* the loop over the title selectors from selector k on, and what follows it
TitleFrom(soup, k) ==
    LET selectors == << Selector("tag", "h1"),
                        Selector("testid=", << "event", "title" >>),
                        Selector("class", "event-title"),
                        Selector("tag", "title") >>
    IN IF k > Len(selectors)
       THEN LET title_tag == Select(soup, Selector("tag", "title"))
            IN IF Len(title_tag) > 0 THEN GetText(title_tag[1], TRUE)
               ELSE << "U", "n", "k", "n", "o", "w", "n", " ", "M", "a", "r", "k",
                       "e", "t" >>
       ELSE LET found == Select(soup, selectors[k])
            IN IF Len(found) > 0 /\ Len(GetText(found[1], TRUE)) > 5
               THEN GetText(found[1], TRUE)
               ELSE TitleFrom(soup, k + 1)

\* _extract_title
ExtractTitle(soup, raising) ==
    IF "title" \in raising THEN << "U", "n", "k", "n", "o", "w", "n", " ", "M", "a", "r", "k",
                                   "e", "t" >>
    ELSE TitleFrom(soup, 1)

RECURSIVE DescriptionFrom(_, _)
\* the loop over the description selectors from selector k on
DescriptionFrom(soup, k) ==
    LET selectors == << Selector("testid=", << "event", "description" >>),
                        Selector("class", "event-description"),
                        Selector("class", "description"),
                        Selector("meta", "description") >>
    IN IF k > Len(selectors)
       THEN << "N", "o", " ", "d", "e", "s", "c", "r", "i", "p", "t", "i",
               "o", "n", " ", "a", "v", "a", "i", "l", "a", "b", "l", "e" >>
       ELSE LET found == Select(soup, selectors[k])
            IN IF Len(found) = 0 THEN DescriptionFrom(soup, k + 1)
               ELSE IF found[1].tag = "meta" THEN Strip(found[1].content)
               ELSE IF Len(GetText(found[1], TRUE)) > 10
                    THEN GetText(found[1], TRUE)
                    ELSE DescriptionFrom(soup, k + 1)

\* _extract_description
ExtractDescription(soup, raising) ==
    IF "description" \in raising
    THEN << "N", "o", " ", "d", "e", "s", "c", "r", "i", "p", "t", "i",
            "o", "n", " ", "a", "v", "a", "i", "l", "a", "b", "l", "e" >>
    ELSE DescriptionFrom(soup, 1)

\* _parse_outcome_element; an exception in its body makes it return None
ParseOutcome(element, raising) ==
    IF "outcome_element" \in raising THEN NoOutcome
    ELSE ParseOutcomeText(GetText(element, TRUE))

\* the outcomes of the list that carry a price
OutcomesPricedOnly(elements, raising) ==
    LET parsed == [i \in 1..Len(elements) |-> ParseOutcome(elements[i], raising)]
        IsPriced(o) == o # NoOutcome /\ o.price # NoPrice
    IN SelectSeq(parsed, IsPriced)

\* the outcomes of the list that are not None
Outcomes(elements, raising) ==
    LET parsed == [i \in 1..Len(elements) |-> ParseOutcome(elements[i], raising)]
        IsOutcome(o) == o # NoOutcome
    IN SelectSeq(parsed, IsOutcome)

\* _parse_market_element returned None
NoMarket == [returned |-> "None", asked |-> FALSE, question |-> <<>>, outcomes |-> <<>>]

\* a market dict: asked tells whether it has the key 'question'
Market(asked, question, outcomes) ==
    [returned |-> "market", asked |-> asked, question |-> question,
     outcomes |-> outcomes]

\* _parse_market_element
ParseMarketElement(element, raising) ==
    LET question_selectors ==
            << Selector("tag", "h2"), Selector("tag", "h3"),
               Selector("class", "question"), Selector("class", "market-title") >>
        outcome_selectors ==
            << Selector("class", "outcome-button"), Selector("class", "bet-button"),
               Selector("testid*=", "outcome"), Selector("class", "price-button") >>
        q == FirstSelecting(element, question_selectors)
        o == FirstSelecting(element, outcome_selectors)
        outcomes == IF o = 0 THEN <<>>
                    ELSE Outcomes(Select(element, outcome_selectors[o]), raising)
    IN IF "market_element" \in raising \/ Len(outcomes) = 0 THEN NoMarket
       ELSE IF q = 0 THEN Market(FALSE, <<>>, outcomes)
       ELSE Market(TRUE, GetText(Select(element, question_selectors[q])[1], TRUE),
                   outcomes)

\* re.compile(r'\d+[cent%]|\d+\.\d+').search(string)
LooksLikePrice(chars) ==
    \E i \in 1..Len(chars) :
        /\ IsDigit(chars[i])
        /\ i + 1 <= Len(chars)
        /\ \/ chars[i + 1] \in {Cent, "%"}
           \/ chars[i + 1] = "." /\ IsDigitAt(chars, i + 2)

\* _extract_prices_fallback
ExtractPricesFallback(soup, raising) ==
    LET strings == StringsOf(soup.children, soup)
        IsPrice(t) == LooksLikePrice(t.chars)
        price_elements == SelectSeq(strings, IsPrice)
        first == SubSeq(price_elements, 1,
                        IF Len(price_elements) < 10 THEN Len(price_elements)
                        ELSE 10)
        outcomes == Outcomes([i \in 1..Len(first) |-> first[i].parent], raising)
    IN IF "prices_fallback" \in raising \/ Len(outcomes) = 0 THEN <<>>
       ELSE << Market(TRUE, << "M", "a", "r", "k", "e", "t", " ", "P", "r", "i", "c", "e",
                               "s" >>, outcomes) >>

\* the markets of the containers the first matching selector selects
StructuredMarkets(soup, raising) ==
    LET market_selectors ==
            << Selector("testid*=", "market"), Selector("class", "market-card"),
               Selector("class", "market-item"), Selector("class", "outcome-card") >>
        k == FirstSelecting(soup, market_selectors)
        elements == IF k = 0 THEN <<>> ELSE Select(soup, market_selectors[k])
        parsed == [i \in 1..Len(elements) |-> ParseMarketElement(elements[i], raising)]
        IsMarket(m) == m # NoMarket
    IN SelectSeq(parsed, IsMarket)

\* the fallback scan used only when no container selector selects anything
ExtractMarketsOnNoMatch(soup, raising) ==
    LET market_selectors ==
            << Selector("testid*=", "market"), Selector("class", "market-card"),
               Selector("class", "market-item"), Selector("class", "outcome-card") >>
    IN IF "markets" \in raising THEN <<>>
       ELSE IF FirstSelecting(soup, market_selectors) # 0
            THEN StructuredMarkets(soup, raising)
            ELSE ExtractPricesFallback(soup, raising)

\* _extract_markets
ExtractMarkets(soup, raising) ==
    IF "markets" \in raising THEN <<>>
    ELSE IF Len(StructuredMarkets(soup, raising)) > 0
         THEN StructuredMarkets(soup, raising)
         ELSE ExtractPricesFallback(soup, raising)

\* ------------------------------------------------ the page-text extractors
\* string.ascii_uppercase and string.ascii_lowercase
Letters ==
    [upper |->
       << "A", "B", "C", "D", "E", "F", "G", "H", "I", "J", "K", "L", "M",
          "N", "O", "P", "Q", "R", "S", "T", "U", "V", "W", "X", "Y", "Z" >>,
     lower |->
       << "a", "b", "c", "d", "e", "f", "g", "h", "i", "j", "k", "l", "m",
          "n", "o", "p", "q", "r", "s", "t", "u", "v", "w", "x", "y", "z" >>]

\* c.lower()
LowerChar(c) ==
    IF \E k \in 1..26 : Letters.upper[k] = c
    THEN Letters.lower[CHOOSE k \in 1..26 : Letters.upper[k] = c]
    ELSE c

\* the character classes of the regular expressions: \s, [:\s], [\d,] and
\* [\w\s,]
InClass(c, class) ==
    LET word == \/ \E k \in 1..26 : c \in {Letters.upper[k], Letters.lower[k]}
                \/ IsDigit(c)
                \/ c = "_"
    IN CASE class = "space" -> c \in Whitespace
         [] class = "separator" -> c = ":" \/ c \in Whitespace
         [] class = "amount" -> IsDigit(c) \/ c = ","
         [] class = "date" -> word \/ c \in Whitespace \/ c = ","

\* word in chars
Contains(chars, word) ==
    \E i \in 1..(Len(chars) - Len(word) + 1) :
        SubSeq(chars, i, i + Len(word) - 1) = word

\* chars[i..] starts with the keyword, whatever the case (re.IGNORECASE)
KeywordAt(chars, i, keyword) ==
    /\ i >= 1
    /\ i + Len(keyword) - 1 <= Len(chars)
    /\ \A k \in 1..Len(keyword) :
          LowerChar(chars[i + k - 1]) = LowerChar(keyword[k])

\* the position of the last character of the run of characters of the class
\* that starts at i; i - 1 when the character at i is not of the class
RunEnd(chars, i, class) ==
    IF i > Len(chars) THEN i - 1
    ELSE Leftmost({e \in i..(Len(chars) + 1) :
                      e > Len(chars) \/ ~InClass(chars[e], class)}) - 1

\* ([\d,]+(?:\.\d+)?[KMB]?) from position i, greedy and without regard to
\* case: the position of its last character, i - 1 when it does not match
AmountEnd(chars, i) ==
    LET j == RunEnd(chars, i, "amount")
        k == IF j + 1 <= Len(chars) /\ chars[j + 1] = "." /\ IsDigitAt(chars, j + 2)
             THEN DigitsEnd(chars, j + 2) ELSE j
    IN IF j < i THEN i - 1
       ELSE IF k + 1 <= Len(chars) /\ LowerChar(chars[k + 1]) \in {"k", "m", "b"}
            THEN k + 1 ELSE k

\* \$? from position i: the position after it
AfterDollar(chars, i) == IF i <= Len(chars) /\ chars[i] = "$" THEN i + 1 ELSE i

\* re.search, without regard to case, of keyword[:\s]*\$?(amount) or, with
\* before set, of \$?(amount)\s*keyword: the span of group 1 in the leftmost
\* match
SearchAmount(chars, keyword, before) ==
    LET After(i) ==
            LET a == AfterDollar(chars, RunEnd(chars, i + Len(keyword), "separator") + 1)
            IN IF KeywordAt(chars, i, keyword) /\ AmountEnd(chars, a) >= a
               THEN [start |-> a, end |-> AmountEnd(chars, a)]
               ELSE NoMatch
        Before(i) ==
            LET a == AfterDollar(chars, i)
                e == AmountEnd(chars, a)
            IN IF e >= a /\ KeywordAt(chars, RunEnd(chars, e + 1, "space") + 1, keyword)
               THEN [start |-> a, end |-> e]
               ELSE NoMatch
        At(i) == IF before THEN Before(i) ELSE After(i)
        starts == {i \in 1..Len(chars) : At(i) # NoMatch}
    IN IF starts = {} THEN NoMatch ELSE At(Leftmost(starts))

\* the loop over the three patterns of a quantity named word
FindAmount(page_text, word, notFound) ==
    LET m1 == SearchAmount(page_text, word, FALSE)
        m2 == SearchAmount(page_text, << "T", "o", "t", "a", "l", " " >> \o word, FALSE)
        m3 == SearchAmount(page_text, word, TRUE)
    IN IF m1 # NoMatch THEN << "$" >> \o Group(page_text, m1)
       ELSE IF m2 # NoMatch THEN << "$" >> \o Group(page_text, m2)
       ELSE IF m3 # NoMatch THEN << "$" >> \o Group(page_text, m3)
       ELSE notFound

\* _extract_volume
ExtractVolume(soup, raising) ==
    LET notFound == << "V", "o", "l", "u", "m", "e", " ", "n", "o", "t", " ", "f",
                       "o", "u", "n", "d" >>
    IN IF "volume" \in raising THEN notFound
       ELSE FindAmount(GetText(soup, FALSE), << "V", "o", "l", "u", "m", "e" >>, notFound)

\* _extract_liquidity
ExtractLiquidity(soup, raising) ==
    LET notFound == << "L", "i", "q", "u", "i", "d", "i", "t", "y", " ", "n", "o",
                       "t", " ", "f", "o", "u", "n", "d" >>
    IN IF "liquidity" \in raising THEN notFound
       ELSE FindAmount(GetText(soup, FALSE), << "L", "i", "q", "u", "i", "d", "i", "t", "y" >>, notFound)

\* ([\w\s,]+\d{4}) from position q, greedy with backtracking: the position of
\* its last character, 0 when it does not match
DateEnd(chars, q) ==
    LET r == RunEnd(chars, q, "date")
        ends == {m \in q..(r - 4) : \A k \in 1..4 : IsDigitAt(chars, m + k)}
    IN IF ends = {} THEN 0
       ELSE (CHOOSE m \in ends : \A n \in ends : n <= m) + 4

\* re.search(r'keyword[:\s]*([\w\s,]+\d{4})', chars, re.IGNORECASE): the span
\* of group 1 in the leftmost match.  The separators are taken greedily and
\* given back one by one.
SearchDate(chars, keyword) ==
    LET Starts(i) ==
            {q \in (i + Len(keyword))..(RunEnd(chars, i + Len(keyword), "separator") + 1) :
                DateEnd(chars, q) > 0}
        At(i) ==
            IF KeywordAt(chars, i, keyword) /\ Starts(i) # {}
            THEN LET q == CHOOSE q \in Starts(i) : \A n \in Starts(i) : n <= q
                 IN [start |-> q, end |-> DateEnd(chars, q)]
            ELSE NoMatch
        starts == {i \in 1..Len(chars) : At(i) # NoMatch}
    IN IF starts = {} THEN NoMatch ELSE At(Leftmost(starts))

RECURSIVE FindDate(_, _)
\* the loop over the date patterns from pattern k on
FindDate(page_text, k) ==
    LET keywords == << << "E", "n", "d", "s" >>, << "C", "l", "o", "s", "e", "s" >>,
                       << "E", "n", "d", " ", "d", "a", "t", "e" >> >>
    IN IF k > Len(keywords)
       THEN << "E", "n", "d", " ", "d", "a", "t", "e", " ", "n", "o", "t",
               " ", "f", "o", "u", "n", "d" >>
       ELSE IF SearchDate(page_text, keywords[k]) # NoMatch
            THEN Strip(Group(page_text, SearchDate(page_text, keywords[k])))
            ELSE FindDate(page_text, k + 1)

\* _extract_end_date
ExtractEndDate(soup, raising) ==
    IF "end_date" \in raising
    THEN << "E", "n", "d", " ", "d", "a", "t", "e", " ", "n", "o", "t",
            " ", "f", "o", "u", "n", "d" >>
    ELSE FindDate(GetText(soup, FALSE), 1)

\* the status check with the active words looked for first
ExtractStatusActiveFirst(soup, raising) ==
    LET all == GetText(soup, FALSE)
        page_text == [i \in 1..Len(all) |-> LowerChar(all[i])]
    IN IF "status" \in raising THEN << "U", "n", "k", "n", "o", "w", "n" >>
       ELSE IF Contains(page_text, << "a", "c", "t", "i", "v", "e" >>)
               \/ Contains(page_text, << "l", "i", "v", "e" >>)
            THEN << "A", "c", "t", "i", "v", "e" >>
       ELSE IF Contains(page_text, << "c", "l", "o", "s", "e", "d" >>)
               \/ Contains(page_text, << "e", "n", "d", "e", "d" >>)
            THEN << "C", "l", "o", "s", "e", "d" >>
       ELSE << "U", "n", "k", "n", "o", "w", "n" >>

\* _extract_status
ExtractStatus(soup, raising) ==
    LET all == GetText(soup, FALSE)
        page_text == [i \in 1..Len(all) |-> LowerChar(all[i])]
    IN IF "status" \in raising THEN << "U", "n", "k", "n", "o", "w", "n" >>
       ELSE IF Contains(page_text, << "c", "l", "o", "s", "e", "d" >>)
               \/ Contains(page_text, << "e", "n", "d", "e", "d" >>)
            THEN << "C", "l", "o", "s", "e", "d" >>
       ELSE IF Contains(page_text, << "a", "c", "t", "i", "v", "e" >>)
               \/ Contains(page_text, << "l", "i", "v", "e" >>)
            THEN << "A", "c", "t", "i", "v", "e" >>
       ELSE << "U", "n", "k", "n", "o", "w", "n" >>

\* ------------------------------------------------------- the API client
\* A payload of the Gamma or the CLOB API is a JSON object, a record whose
\* domain is the set of the keys it has; <<>> is the object without keys.
\* A Python dict under construction is a list of key/value entries in
\* insertion order.  The answer to a request is [raised, json]: raised names
\* the exception the request or the decoding of its body ends with, "none"
\* when there is none, "RequestException" or "Exception" for any other one.

\* dict.get(key, default)
Get(dict, key, default) == IF key \in DOMAIN dict THEN dict[key] ELSE default

RECURSIVE Update(_, _)
\* dict[entry.key] = entry.value for the entries of a list, in their order:
\* a key the dict has keeps its place, a new key goes to the end
Update(dict, entries) ==
    IF Len(entries) = 0 THEN dict
    ELSE LET e == Head(entries)
             at == {i \in 1..Len(dict) : dict[i].key = e.key}
         IN Update(IF at = {} THEN Append(dict, e)
                   ELSE [i \in 1..Len(dict) |-> IF i \in at THEN e ELSE dict[i]],
                   Tail(entries))

\* get_market_by_slug: the first market of the answer; None, which line 157
\* treats like the empty object, when the request fails or finds nothing
GetMarketBySlug(response) ==
    IF response.raised # "none" \/ Len(response.json) = 0 THEN <<>>
    ELSE response.json[1]

\* get_markets_for_event: the markets of the answer; None, which line 160
\* treats like the empty list, when the request fails
GetMarketsForEvent(response) ==
    IF response.raised # "none" THEN <<>> ELSE response.json

\* get_market_prices_from_clob: the price placeholder 0.5 under the outcome
\* name of each token of the market with that condition_id; None, which line
\* 184 treats like the empty dict, when there is no such market or anything
\* raises
GetMarketPricesFromClob(condition_id, response) ==
    LET data == Get(response.json, "data", <<>>)
        found == {i \in 1..Len(data) : Get(data[i], "condition_id", "") = condition_id}
        target_market == data[Leftmost(found)]
        tokens == Get(target_market, "tokens", <<>>)
    IN IF response.raised # "none" \/ found = {} THEN <<>>
       ELSE Update(<<>>, [i \in 1..Len(tokens) |->
                            [key |-> Get(tokens[i], "outcome", "Unknown"),
                             value |-> Float(5000)]])

\* get_simplified_price_data returned None
NoData == [returned |-> "None", market_data |-> <<>>, prices |-> <<>>, data |-> <<>>]

\* the entries lines 182 to 191 add whether or not there is a condition_id
PriceEntriesWithoutCondition(market_data, prices) ==
    LET tokens == Get(market_data, "tokens", <<>>)
    IN IF Len(prices) > 0 THEN prices
       ELSE [i \in 1..Len(tokens) |->
                [key |-> Get(tokens[i], "outcome", "Unknown") \o "_price",
                 value |-> "N/A"]]

\* the entries lines 182 to 191 add if every key has the suffix
PriceEntriesSuffixed(market_data, prices) ==
    LET tokens == Get(market_data, "tokens", <<>>)
    IN IF Get(market_data, "condition_id", "") = "" THEN <<>>
       ELSE IF Len(prices) > 0
            THEN [i \in 1..Len(prices) |->
                     [key |-> prices[i].key \o "_price", value |-> prices[i].value]]
       ELSE [i \in 1..Len(tokens) |->
                [key |-> Get(tokens[i], "outcome", "Unknown") \o "_price",
                 value |-> "N/A"]]

\* the entries lines 182 to 191 add to the record, prices being what
\* get_market_prices_from_clob returned: condition_id is truthy when the
\* payload has one that is not empty
PriceEntries(market_data, prices) ==
    LET tokens == Get(market_data, "tokens", <<>>)
    IN IF Get(market_data, "condition_id", "") = "" THEN <<>>
       ELSE IF Len(prices) > 0 THEN prices
       ELSE [i \in 1..Len(tokens) |->
                [key |-> Get(tokens[i], "outcome", "Unknown") \o "_price",
                 value |-> "N/A"]]

\* lines 169 to 193: the record built from market_data, with the local
\* variables market_data and prices (None shown as the empty dict)
SimplifiedData(market_data, slug, clob, now) ==
    LET simplified_data ==
            << [key |-> "timestamp", value |-> now],
               [key |-> "market_title",
                value |-> Get(market_data, "question", "Unknown Market")],
               [key |-> "market_slug", value |-> Get(market_data, "market_slug", slug)],
               [key |-> "condition_id",
                value |-> Get(market_data, "condition_id", "Unknown")],
               [key |-> "category", value |-> Get(market_data, "category", "Unknown")],
               [key |-> "end_date", value |-> Get(market_data, "end_date_iso", "Unknown")],
               [key |-> "active", value |-> Get(market_data, "active", FALSE)],
               [key |-> "closed", value |-> Get(market_data, "closed", FALSE)] >>
        condition_id == Get(market_data, "condition_id", "")
        prices == IF condition_id = "" THEN <<>>
                  ELSE GetMarketPricesFromClob(condition_id, clob)
    IN [returned |-> "dict",
        market_data |-> market_data,
        prices |-> prices,
        data |-> Update(simplified_data, PriceEntries(market_data, prices))]

\* get_simplified_price_data(slug) when the three requests are answered as
\* upstream says and datetime.now() reads now
GetSimplifiedPriceData(slug, upstream, now) ==
    LET by_slug == GetMarketBySlug(upstream.market)
        markets == GetMarketsForEvent(upstream.event)
    IN IF upstream.market.raised = "Exception" THEN NoData
       ELSE IF DOMAIN by_slug # {}
            THEN SimplifiedData(by_slug, slug, upstream.clob, now)
       ELSE IF upstream.event.raised = "Exception" \/ Len(markets) = 0 THEN NoData
       ELSE SimplifiedData(markets[1], slug, upstream.clob, now)

\* ---------------------------------------------------- the sheets client
\* The sheet is the list of its rows, row 1 first.  A call of the service
\* ends with fault: "none", "HttpError", "Exception" for any other
\* exception, or "KeyboardInterrupt" when the interrupt signal arrives
\* during the call.  An operation yields [raised, value, sheet]: the
\* exception that leaves it ("none" when it returns), what it returns and
\* the sheet after it.

\* a clause that catches HttpError and nothing else
ExceptHttpError(kind) == kind = "HttpError"

\* the clause "except Exception": the exceptions it catches
ExceptException(kind) == kind \in {"HttpError", "RequestException", "Exception"}

\* get_sheet_data of row 1: value is FALSE for None, and the sheet field
\* holds the rows read
GetSheetData(sheet, fault) ==
    IF fault = "HttpError" THEN [raised |-> "none", value |-> FALSE, sheet |-> <<>>]
    ELSE IF fault # "none" THEN [raised |-> fault, value |-> FALSE, sheet |-> <<>>]
    ELSE [raised |-> "none", value |-> TRUE,
          sheet |-> IF Len(sheet) > 0 /\ Len(sheet[1]) > 0 THEN << sheet[1] >>
                    ELSE <<>>]

\* write_row_data([row], range A1): the cells of row 1 from column A on are
\* overwritten with the row
WriteRowData(sheet, row, fault) ==
    IF fault = "HttpError" THEN [raised |-> "none", value |-> FALSE, sheet |-> sheet]
    ELSE IF fault # "none" THEN [raised |-> fault, value |-> FALSE, sheet |-> sheet]
    ELSE [raised |-> "none", value |-> TRUE,
          sheet |-> IF Len(sheet) = 0 THEN << row >>
                    ELSE [sheet EXCEPT
                             ![1] = row \o SubSeq(@, Len(row) + 1, Len(@))]]

\* append_row_data([row])
AppendRowData(sheet, row, fault) ==
    IF fault = "HttpError" THEN [raised |-> "none", value |-> FALSE, sheet |-> sheet]
    ELSE IF fault # "none" THEN [raised |-> fault, value |-> FALSE, sheet |-> sheet]
    ELSE [raised |-> "none", value |-> TRUE, sheet |-> Append(sheet, row)]

\* try: ... except Exception: return False, around an operation
ReturnFalseOnException(result) ==
    IF ExceptException(result.raised)
    THEN [raised |-> "none", value |-> FALSE, sheet |-> result.sheet]
    ELSE result

\* create_headers_if_needed
CreateHeadersIfNeeded(sheet, headers, read, write) ==
    LET existing_data == GetSheetData(sheet, read)
    IN ReturnFalseOnException(
          IF existing_data.raised # "none"
          THEN [raised |-> existing_data.raised, value |-> FALSE, sheet |-> sheet]
          ELSE IF ~existing_data.value \/ Len(existing_data.sheet) = 0
               THEN WriteRowData(sheet, headers, write)
               ELSE [raised |-> "none", value |-> TRUE, sheet |-> sheet])

\* write_price_data; ends names the fault of the header read, of the header
\* write and of the append
WritePriceData(sheet, price_data, ends) ==
    LET headers == [i \in 1..Len(price_data) |-> price_data[i].key]
        row_data == [i \in 1..Len(price_data) |-> price_data[i].value]
        created == CreateHeadersIfNeeded(sheet, headers, ends.read, ends.write)
    IN ReturnFalseOnException(
          IF created.raised # "none" \/ ~created.value THEN created
          ELSE AppendRowData(created.sheet, row_data, ends.append))

\* ------------------------------------------------------------ the agent
\* update_price_data for the slug of the configuration; ends.fetch is
\* "KeyboardInterrupt" when the signal arrives before the data is fetched.
\* The result carries the local variables of get_simplified_price_data.
UpdatePriceData(sheet, upstream, ends, now) ==
    LET fetched == GetSimplifiedPriceData("will-x", upstream, now)
        updated ==
            ReturnFalseOnException(
               IF ends.fetch # "none"
               THEN [raised |-> ends.fetch, value |-> FALSE, sheet |-> sheet]
               ELSE IF fetched.returned = "None"
                    THEN [raised |-> "none", value |-> FALSE, sheet |-> sheet]
                    ELSE WritePriceData(sheet, fetched.data, ends))
    IN [raised |-> updated.raised, value |-> updated.value, sheet |-> updated.sheet,
        fetched |-> IF ends.fetch # "none" THEN NoData ELSE fetched]

\* ------------------------------------------------------------ the system
VARIABLES
    exists,        \* os.path.exists(file_path)
    file,          \* the text of the log file
    max_entries,   \* MarkdownWriter.max_entries
    clock,         \* the reading of datetime.now()
    pc,            \* per caller: "idle", or "read" once the file has been read
    market_data,   \* per caller: the argument of write_market_data
    existing,      \* per caller: existing_content
    readVersion,   \* per caller: the version of the file that was read
    readRaised,    \* per caller: whether reading the file raised
    version,       \* number of writes to the file so far
    faults,        \* number of exceptions the environment has raised so far
    origin,        \* which file the run started from
    last,          \* the last invocation that returned
    prev,          \* the invocation that returned before it
    log,           \* the entries of the invocations that returned, oldest first
    polled         \* what get_last_update_time returned since the last write

\* the outcome parser of the web scraper (src/web_scraper_client.py)
VARIABLES
    text,          \* element.get_text(strip=True) of the outcome element
    parts,         \* how the text was put together: label, number, suffix
    outcome,       \* what _parse_outcome_element returned
    rendered       \* the table row _format_market_data makes of the outcome

parseVars == << text, parts, outcome, rendered >>

\* one call of extract_market_data (src/web_scraper_client.py)
VARIABLES
    soup,          \* the parsed page the server answers with
    raising,       \* the extractors in whose body the page raises
    scraped        \* what extract_market_data returned

scrapeVars == << soup, raising, scraped >>

writerVars == << exists, file, max_entries, clock, pc, market_data, existing,
                 readVersion, readRaised, version, faults, origin, last, prev,
                 log, polled >>

\* the price agent, its API client and its sheet (src/polymarket_agent.py)
VARIABLES
    agent,         \* where start_monitoring is: "starting", "loop", "stopped"
                   \* once it has returned, "raised" once an exception left it
    sheet,         \* the rows of the Google sheet
    cycles         \* the cycles run so far, oldest first

agentVars == << agent, sheet, cycles >>

vars == << writerVars, parseVars, scrapeVars, agentVars >>

Callers == {1, 2}

\* _parse_outcome_element has not been called
NotParsed == [returned |-> "pending", name |-> <<>>, price |-> NoPrice]

NoParts ==
    [before |-> <<>>, numbered |-> FALSE, number |-> 0, decimals |-> <<>>,
     suffix |-> <<>>, after |-> <<>>]

\* no table row has been rendered
NotRendered == <<>>

\* the outcome parser at rest
ParseIdle ==
    /\ text = <<>> /\ parts = NoParts /\ outcome = NotParsed
    /\ rendered = NotRendered

\* extract_market_data has not been called
NotScraped == [returned |-> "pending", fetched |-> FALSE, data |-> <<>>]

EmptyPage == Element("html", "", <<>>, <<>>)

\* the scraper at rest
ScrapeIdle == soup = EmptyPage /\ raising = {} /\ scraped = NotScraped

\* the agent before start_monitoring, with an empty sheet
AgentIdle == agent = "starting" /\ sheet = <<>> /\ cycles = <<>>

Stamp1 == << "2026-01-01", "T", "00:00:01" >>
Stamp2 == << "2026-01-02", "T", "00:00:02" >>

Yes == [name |-> "Yes", price |-> Float(6500)]

Unsure == [name |-> "Unsure", price |-> NoPrice]

Scraped(timestamp, markets) ==
    [timestamp |-> timestamp, title |-> "Will X happen?",
     url |-> "https://polymarket.com/event/x", description |-> "Resolves Yes if X.",
     volume |-> "$1,234", liquidity |-> "$567", end_date |-> "Dec 31",
     status |-> "Active", markets |-> markets]

NoRecord == Scraped(<<>>, <<>>)

\* the records handed to write_market_data: without markets, with one
\* sub-market, and with a markets list whose element is no dict
Records ==
    { Scraped(Stamp1, <<>>),
      Scraped(Stamp2, << [isdict |-> TRUE, question |-> "Will X happen?",
                          outcomes |-> << Yes, Unsure >>] >>),
      Scraped(Stamp1, << [isdict |-> FALSE, question |-> "", outcomes |-> <<>>] >>) }

\* the log file before the first invocation: none, a whitespace-only file, a
\* hand-edited file whose title line is gone, a hand-written compact header
InitialFiles ==
    { [origin |-> "absent", exists |-> FALSE, text |-> EmptyStr],
      [origin |-> "blank", exists |-> TRUE, text |-> << << " ", " " >>, <<>> >>],
      [origin |-> "noheading", exists |-> TRUE,
       text |-> << << "My market notes" >>,
                   <<>>,
                   EntryMarker \o << " - ", "2025-12-31", " ", "23:59:59", " UTC" >>,
                   << "copied by hand" >>,
                   <<>>,
                   EntryMarker \o << " - ", "2025-12-30", " ", "23:59:59", " UTC" >>,
                   << "copied by hand" >>,
                   <<>> >>],
      [origin |-> "compact", exists |-> TRUE,
       text |-> << << "#", " ", "Markets" >>,
                   << "watch list" >>,
                   <<>>,
                   << "trailing notes" >> >>] }

\* get_last_update_time has not been called
NotPolled == [returned |-> "pending", raised |-> FALSE, value |-> <<>>]

\* get_last_update_time returned None
PolledNone(raised) == [returned |-> "None", raised |-> raised, value |-> <<>>]

\* the datetime strptime(time_str, '%Y-%m-%d %H:%M:%S UTC') makes of the
\* heading's date and time
Datetime(date, time) ==
    [returned |-> "datetime", raised |-> FALSE, value |-> << date, time >>]

\* the match of the heading pattern with the date and the time at the front
\* of the str
IsUpdateHeading(line) ==
    /\ StartsWith(line, EntryMarker \o << " - " >>)
    /\ Len(line) >= 9
    /\ line[7] = " "
    /\ line[9] = " UTC"

\* get_last_update_time taking the last match of the pattern
GetLastUpdateTimeOfLastMatch(raises) ==
    IF ~exists THEN PolledNone(FALSE)
    ELSE IF raises THEN PolledNone(TRUE)
    ELSE LET matches == SelectSeq(file, IsUpdateHeading)
         IN IF Len(matches) > 0
            THEN Datetime(matches[Len(matches)][6], matches[Len(matches)][8])
            ELSE PolledNone(FALSE)

\* MarkdownWriter.get_last_update_time; raises: open() or read() raised
GetLastUpdateTime(raises) ==
    IF ~exists THEN PolledNone(FALSE)
    ELSE IF raises THEN PolledNone(TRUE)
    ELSE LET matches == SelectSeq(file, IsUpdateHeading)
         IN IF Len(matches) > 0
            THEN Datetime(matches[1][6], matches[1][8])
            ELSE PolledNone(FALSE)

NoCall ==
    [returned |-> FALSE, value |-> FALSE, existing_content |-> EmptyStr,
     new_entry |-> EmptyStr, updated_content |-> EmptyStr,
     read_version |-> 0, version_before |-> 0,
     read_raised |-> FALSE, format_raised |-> FALSE, combine_raised |-> FALSE,
     write_raised |-> FALSE]

Init ==
    /\ \E f \in InitialFiles :
          /\ exists = f.exists
          /\ file = f.text
          /\ origin = f.origin
    /\ max_entries \in 0..MaxCap
    /\ clock = 1
    /\ pc = [p \in Callers |-> "idle"]
    /\ market_data = [p \in Callers |-> NoRecord]
    /\ existing = [p \in Callers |-> EmptyStr]
    /\ readVersion = [p \in Callers |-> 0]
    /\ readRaised = [p \in Callers |-> FALSE]
    /\ version = 0
    /\ faults = 0
    /\ last = NoCall
    /\ prev = NoCall
    /\ log = <<>>
    /\ polled = NotPolled
    /\ ParseIdle
    /\ ScrapeIdle
    /\ AgentIdle

Started == Len(log) + Cardinality({p \in Callers : pc[p] = "read"})

Idle == \A p \in Callers : pc[p] = "idle"

\* MarkdownWriter._read_existing_content; raises: open() or read() raised
ReadExistingContent(raises) == IF exists /\ ~raises THEN file ELSE EmptyStr

\* write_market_data up to and including the read of the file
Read(p) ==
    /\ pc[p] = "idle"
    /\ Started < MaxWrites
    /\ \E md \in Records, raises \in BOOLEAN :
          /\ raises => (exists /\ faults < MaxFaults)
          /\ market_data' = [market_data EXCEPT ![p] = md]
          /\ existing' = [existing EXCEPT ![p] = ReadExistingContent(raises)]
          /\ readRaised' = [readRaised EXCEPT ![p] = raises]
          /\ faults' = IF raises THEN faults + 1 ELSE faults
    /\ readVersion' = [readVersion EXCEPT ![p] = version]
    /\ pc' = [pc EXCEPT ![p] = "read"]
    /\ UNCHANGED << exists, file, max_entries, clock, version, origin, last, prev,
                    log >>

\* write_market_data as an atomic read-modify-write: the file is read again
\* at the moment it is written
FinishAtomic(p) ==
    /\ pc[p] = "read"
    /\ \E fault \in {"none", "combine", "write"} :
          LET new_entry == FormatMarketData(market_data[p], clock)
              updated_content ==
                  CombineContent(IF readRaised[p] THEN existing[p] ELSE ReadExistingContent(FALSE),
                                 new_entry, max_entries, clock,
                                 fault = "combine")
              call == [returned |-> TRUE,
                       value |-> fault # "write",
                       existing_content |-> existing[p],
                       new_entry |-> new_entry,
                       updated_content |-> updated_content,
                       read_version |-> readVersion[p],
                       version_before |-> version,
                       read_raised |-> readRaised[p],
                       format_raised |-> FormatRaises(market_data[p]),
                       combine_raised |-> fault = "combine",
                       write_raised |-> fault = "write"]
          IN /\ fault # "none" => faults < MaxFaults
             /\ faults' = IF fault = "none" THEN faults ELSE faults + 1
             /\ IF fault = "write"
                THEN UNCHANGED << exists, file, version >>
                ELSE /\ exists' = TRUE
                     /\ file' = updated_content
                     /\ version' = version + 1
             /\ last' = call
             /\ prev' = last
             /\ log' = Append(log, [new_entry |-> new_entry,
                                    format_raised |-> call.format_raised,
                                    combine_raised |-> call.combine_raised])
    /\ clock' = clock + 1
    /\ pc' = [pc EXCEPT ![p] = "idle"]
    /\ market_data' = [market_data EXCEPT ![p] = NoRecord]
    /\ existing' = [existing EXCEPT ![p] = EmptyStr]
    /\ readVersion' = [readVersion EXCEPT ![p] = 0]
    /\ readRaised' = [readRaised EXCEPT ![p] = FALSE]
    /\ UNCHANGED << max_entries, origin >>

\* write_market_data whose formatter lets its exception escape: the outer
\* handler returns False and nothing is written
FinishFormatEscapes(p) ==
    /\ pc[p] = "read"
    /\ \E fault \in {"none", "combine", "write"} :
          LET new_entry == FormatMarketData(market_data[p], clock)
              updated_content ==
                  CombineContent(existing[p], new_entry, max_entries, clock,
                                 fault = "combine")
              call == [returned |-> TRUE,
                       value |-> fault # "write" /\ ~FormatRaises(market_data[p]),
                       existing_content |-> existing[p],
                       new_entry |-> new_entry,
                       updated_content |-> updated_content,
                       read_version |-> readVersion[p],
                       version_before |-> version,
                       read_raised |-> readRaised[p],
                       format_raised |-> FormatRaises(market_data[p]),
                       combine_raised |-> fault = "combine",
                       write_raised |-> fault = "write"]
          IN /\ fault # "none" => faults < MaxFaults
             /\ faults' = IF fault = "none" THEN faults ELSE faults + 1
             /\ IF fault = "write" \/ FormatRaises(market_data[p])
                THEN UNCHANGED << exists, file, version >>
                ELSE /\ exists' = TRUE
                     /\ file' = updated_content
                     /\ version' = version + 1
             /\ last' = call
             /\ prev' = last
             /\ log' = Append(log, [new_entry |-> new_entry,
                                    format_raised |-> call.format_raised,
                                    combine_raised |-> call.combine_raised])
    /\ clock' = clock + 1
    /\ pc' = [pc EXCEPT ![p] = "idle"]
    /\ market_data' = [market_data EXCEPT ![p] = NoRecord]
    /\ existing' = [existing EXCEPT ![p] = EmptyStr]
    /\ readVersion' = [readVersion EXCEPT ![p] = 0]
    /\ readRaised' = [readRaised EXCEPT ![p] = FALSE]
    /\ UNCHANGED << max_entries, origin >>

\* write_market_data from the formatting of the record to its return.
\* fault "combine": an exception inside the try block of _combine_content;
\* fault "write": open() raised, the outer handler returns False and the file
\* is as it was.
Finish(p) ==
    /\ pc[p] = "read"
    /\ \E fault \in {"none", "combine", "write"} :
          LET new_entry == FormatMarketData(market_data[p], clock)
              updated_content ==
                  CombineContent(existing[p], new_entry, max_entries, clock,
                                 fault = "combine")
              call == [returned |-> TRUE,
                       value |-> fault # "write",
                       existing_content |-> existing[p],
                       new_entry |-> new_entry,
                       updated_content |-> updated_content,
                       read_version |-> readVersion[p],
                       version_before |-> version,
                       read_raised |-> readRaised[p],
                       format_raised |-> FormatRaises(market_data[p]),
                       combine_raised |-> fault = "combine",
                       write_raised |-> fault = "write"]
          IN /\ fault # "none" => faults < MaxFaults
             /\ faults' = IF fault = "none" THEN faults ELSE faults + 1
             /\ IF fault = "write"
                THEN UNCHANGED << exists, file, version >>
                ELSE /\ exists' = TRUE
                     /\ file' = updated_content
                     /\ version' = version + 1
             /\ last' = call
             /\ prev' = last
             /\ log' = Append(log, [new_entry |-> new_entry,
                                    format_raised |-> call.format_raised,
                                    combine_raised |-> call.combine_raised])
    /\ clock' = clock + 1
    /\ pc' = [pc EXCEPT ![p] = "idle"]
    /\ market_data' = [market_data EXCEPT ![p] = NoRecord]
    /\ existing' = [existing EXCEPT ![p] = EmptyStr]
    /\ readVersion' = [readVersion EXCEPT ![p] = 0]
    /\ readRaised' = [readRaised EXCEPT ![p] = FALSE]
    /\ UNCHANGED << max_entries, origin >>

\* the caller whose cycles run one at a time
Scheduler == CHOOSE p \in Callers : \A q \in Callers : p <= q

\* one cycle at a time: no invocation overlaps another
SerialRead(p) == Idle /\ Read(p)

Next ==
    \/ SerialRead(Scheduler)
          /\ UNCHANGED << polled, parseVars, scrapeVars, agentVars >>
    \/ Finish(Scheduler)
          /\ UNCHANGED << polled, parseVars, scrapeVars, agentVars >>

Spec == Init /\ [][Next]_vars

\* callers that do not serialize their access to the log file, in an
\* environment that raises no exception
NextConc ==
    \E p \in Callers :
        /\ (Read(p) \/ Finish(p))
        /\ faults' = 0
        /\ UNCHANGED << polled, parseVars, scrapeVars, agentVars >>

SpecConc == Init /\ [][NextConc]_vars

\* one call of get_file_stats between two cycles, as the smoke test makes it
\* after its write: the record's 'last_update' is get_last_update_time()
Poll ==
    /\ Idle
    /\ polled = NotPolled
    /\ \E raises \in BOOLEAN :
          /\ raises => exists
          /\ polled' = GetLastUpdateTime(raises)
    /\ UNCHANGED << exists, file, max_entries, clock, pc, market_data, existing,
                    readVersion, readRaised, version, faults, origin, last,
                    prev, log, parseVars, scrapeVars, agentVars >>

\* cycles that run one at a time in an environment that raises no
\* exception, and calls of get_last_update_time between them
NextPoll ==
    \/ /\ SerialRead(Scheduler)
       /\ faults' = 0
       /\ polled' = NotPolled
       /\ UNCHANGED << parseVars, scrapeVars, agentVars >>
    \/ /\ Finish(Scheduler)
       /\ faults' = 0
       /\ polled' = NotPolled
       /\ UNCHANGED << parseVars, scrapeVars, agentVars >>
    \/ Poll

SpecPoll == Init /\ [][NextPoll]_vars

\* -------------------------------------------------- the parser on its own
\* the markdown writer at rest: no file, no invocation
WriterIdle ==
    /\ exists = FALSE
    /\ file = EmptyStr
    /\ origin = "absent"
    /\ max_entries = 0
    /\ clock = 1
    /\ pc = [p \in Callers |-> "idle"]
    /\ market_data = [p \in Callers |-> NoRecord]
    /\ existing = [p \in Callers |-> EmptyStr]
    /\ readVersion = [p \in Callers |-> 0]
    /\ readRaised = [p \in Callers |-> FALSE]
    /\ version = 0
    /\ faults = 0
    /\ last = NoCall
    /\ prev = NoCall
    /\ log = <<>>
    /\ polled = NotPolled

RECURSIVE Numeral(_)
\* the decimal digits of n
Numeral(n) ==
    IF n < 10 THEN << DigitChars[n + 1] >>
    ELSE Numeral(n \div 10) \o << DigitChars[(n % 10) + 1] >>

\* the texts of outcome elements: a number of up to two decimals with or
\* without a sign behind it and label text around it ("Yes ", "Over 2.5 "
\* in front, " pts" behind), or label text alone
FragmentParts ==
    LET before == { <<>>, << "Y", "e", "s", " " >>,
                    << "O", "v", "e", "r", " ", "2", ".", "5", " " >> }
        after == { <<>>, << " ", "p", "t", "s" >> }
        decimals == { <<>>, << ".", "0" >>, << ".", "5" >>, << ".", "2", "5" >> }
        suffix == { <<>>, << "%" >>, << Cent >> }
    IN [before : before, numbered : {TRUE}, number : 0..MaxNumber,
        decimals : decimals, suffix : suffix, after : after]
       \cup
       [before : before, numbered : {FALSE}, number : {0},
        decimals : {<<>>}, suffix : suffix, after : after]

\* element.get_text(strip=True) of an element with one text node
ElementText(p) ==
    Strip(p.before
          \o (IF p.numbered THEN Numeral(p.number) \o p.decimals ELSE <<>>)
          \o p.suffix \o p.after)

InitParse ==
    /\ parts \in FragmentParts
    /\ text = ElementText(parts)
    /\ outcome = NotParsed
    /\ rendered = NotRendered
    /\ WriterIdle
    /\ ScrapeIdle
    /\ AgentIdle

\* one call of _parse_outcome_element
ParseOutcomeElement ==
    /\ outcome = NotParsed
    /\ outcome' = ParseOutcomeText(text)
    /\ UNCHANGED << text, parts, rendered, writerVars, scrapeVars, agentVars >>

\* the pass of the outcome loop of _format_market_data over the outcome that
\* was parsed: the row of the price table
RenderOutcome ==
    /\ outcome.returned = "outcome"
    /\ rendered = NotRendered
    /\ rendered' = OutcomeRow([name |-> outcome.name, price |-> outcome.price])
    /\ UNCHANGED << text, parts, outcome, writerVars, scrapeVars, agentVars >>

NextParse == ParseOutcomeElement \/ RenderOutcome

SpecParse == InitParse /\ [][NextParse]_vars

\* ------------------------------------------------- the scraper on its own
\* The pages the scraper is run on.
\*   card:  one h1 and a market card that holds three outcome buttons,
\*          "Yes 65%", "No 35%" and "Unsure"
\*   loose: one h1 and the three buttons, outside of any market container
\*   full:  a short h1 above a title element, a meta description, a market
\*          container found by its data-testid with a question and two
\*          outcomes, one of them split over two elements, and the figures of
\*          the market as running text
\*   two:   market items with bet buttons, a description and a closing note
\*   text:  prices as running text only, no element the selectors know
\*   hollow: a title element without text, a market card that holds a
\*          question and no outcome, a price and a closing note with the
\*          word live in it as running text
Page ==
    LET WillXHappen == << "W", "i", "l", "l", " ", "X", " ", "h", "a", "p", "p", "e",
                        "n", "?" >>
        OutcomeButton(label) ==
            Element("button", "outcome-button", <<>>, << TextNode(label) >>)
        ThreeButtons ==
            << OutcomeButton(<< "Y", "e", "s", " ", "6", "5", "%" >>),
               OutcomeButton(<< "N", "o", " ", "3", "5", "%" >>),
               OutcomeButton(<< "U", "n", "s", "u", "r", "e" >>) >>
    IN [card |->
          Element("html", "", <<>>,
              << Element("h1", "", <<>>, << TextNode(WillXHappen) >>),
                 Element("div", "market-card", <<>>, ThreeButtons) >>),
        loose |->
          Element("html", "", <<>>,
              << Element("h1", "", <<>>, << TextNode(WillXHappen) >> ) >> \o ThreeButtons),
        full |->
          Element("html", "", <<>>,
              << Element("title", "", <<>>, << TextNode(<< "X", " ", "b", "y", " ", "J", "u", "n", "e", "?", " ", "|",
                                                           " ", "P", "o", "l", "y", "m", "a", "r", "k", "e", "t" >>) >>),
                 Meta("description", << " ", "R", "e", "s", "o", "l", "v", "e", "s", " ", "Y", "e",
                                        "s", " ", "i", "f", " ", "X", ".", " " >>),
                 Element("h1", "", <<>>, << TextNode(<< "H", "o", "m", "e" >>) >>),
                 Element("div", "", << "market", "1" >>,
                     << Element("h3", "", <<>>, << TextNode(<< "W", "i", "l", "l", " ", "X", " ", "h", "a", "p", "p", "e",
                                                               "n", " ", "b", "y", " ", "J", "u", "n", "e", "?" >>) >>),
                        Element("button", "", << "outcome", "yes" >>,
                            << TextNode(<< "Y", "e", "s", " " >>),
                               Element("span", "", <<>>, << TextNode(<< "6", "5", "%" >>) >>) >>),
                        Element("button", "", << "outcome", "no" >>,
                            << TextNode(<< "N", "o", " ", "3", "5" >>) >>) >>),
                 Element("p", "", <<>>, << TextNode(<< "V", "o", "l", "u", "m", "e", ":", " ", "$", "1", ",", "2",
                                                       "3", "4", " ", "L", "i", "q", "u", "i", "d", "i", "t", "y",
                                                       " ", "$", "5", ".", "6", "K" >>) >>),
                 Element("p", "", <<>>, << TextNode(<< "E", "n", "d", "s", ":", " ", "D", "e", "c", " ", "3", "1",
                                                       ",", " ", "2", "0", "2", "5" >>) >>),
                 Element("span", "", <<>>, << TextNode(<< "M", "a", "r", "k", "e", "t", " ", "i", "s", " ", "l", "i",
                                                          "v", "e" >>) >>) >>),
        two |->
          Element("html", "", <<>>,
              << Element("div", "event-title", <<>>, << TextNode(<< "R", "a", "t", "e", "s" >>) >>),
                 Element("div", "description", <<>>, << TextNode(<< "R", "a", "t", "e", "s", " ", "i", "n", " ", "J", "u", "n",
                                                                    "e", ",", " ", "u", "p", " ", "o", "r", " ", "d", "o", "w",
                                                                    "n" >>) >>),
                 Element("div", "market-item", <<>>,
                     << Element("h2", "", <<>>, << TextNode(<< "U", "p", " ", "o", "r", " ", "d", "o", "w", "n", "?" >>) >>),
                        Element("a", "bet-button", <<>>, << TextNode(<< "U", "p", " ", "4", "0", "%" >>) >>),
                        Element("a", "bet-button", <<>>, << TextNode(<< "D", "o", "w", "n" >>) >>) >>),
                 Element("div", "market-item", <<>>,
                     << Element("a", "price-button", <<>>, << TextNode(<< "U", "p", " ", "1", "5", "0" >>) >>) >>),
                 Element("div", "market-item", <<>>,
                     << Element("a", "bet-button", <<>>, << TextNode(<< "5", "0", "%" >>) >>) >>),
                 Element("p", "", <<>>, << TextNode(<< "T", "r", "a", "d", "i", "n", "g", " ", "e", "n", "d", "e",
                                                       "d", ".", " ", "2", "M", " ", "v", "o", "l", "u", "m", "e" >>) >>) >>),
        text |->
          Element("html", "", <<>>,
              << Element("title", "", <<>>, << TextNode(<< "O", "d", "d", "s" >>) >>),
                 Element("p", "", <<>>, << TextNode(<< "Y", "e", "s", " ", "0", ".", "6", "5" >>) >>),
                 Element("p", "", <<>>, << TextNode(<< "N", "o", " ", "3", "5" >>) >>),
                 Element("p", "", <<>>, << TextNode(<< "S", "t", "i", "l", "l", " ", "a", "c", "t", "i", "v", "e" >>) >>) >>),
        hollow |->
          Element("html", "", <<>>,
              << Element("title", "", <<>>, <<>>),
                 Element("div", "market-card", <<>>,
                     << Element("h2", "", <<>>, << TextNode(<< "W", "h", "o", " ", "w", "i", "n", "s", "?" >>) >>) >>),
                 Element("p", "", <<>>, << TextNode(<< "Y", "e", "s", " ", "0", ".", "6", "5" >>) >>),
                 Element("p", "", <<>>, << TextNode(<< "C", "L", "O", "S", "E", "D", ",", " ", "w", "a", "s", " ",
                                                       "l", "i", "v", "e" >>) >>) >>)]

Pages ==
    {Page.card, Page.loose, Page.full, Page.two, Page.text, Page.hollow,
     EmptyPage}

Extractors ==
    {"title", "description", "markets", "volume", "liquidity", "end_date",
     "status", "market_element", "outcome_element", "prices_fallback"}

\* extract_market_data returned None; fetched: the request had succeeded
ScrapedNone(fetched) == [returned |-> "None", fetched |-> fetched, data |-> <<>>]

\* extract_market_data returned the dict
ScrapedDict(data) == [returned |-> "dict", fetched |-> TRUE, data |-> data]

\* the dict extract_market_data builds
MarketData(page, failing) ==
    [url |-> "https://polymarket.com/event/x",
     timestamp |-> Stamp1,
     title |-> ExtractTitle(page, failing),
     description |-> ExtractDescription(page, failing),
     markets |-> ExtractMarkets(page, failing),
     volume |-> ExtractVolume(page, failing),
     liquidity |-> ExtractLiquidity(page, failing),
     end_date |-> ExtractEndDate(page, failing),
     status |-> ExtractStatus(page, failing)]

InitScrape ==
    /\ soup \in Pages
    /\ raising \in {r \in SUBSET Extractors : Cardinality(r) <= MaxRaising}
    /\ scraped = NotScraped
    /\ WriterIdle
    /\ ParseIdle
    /\ AgentIdle

\* extract_market_data without the try blocks of the extractors: an exception
\* in an extractor reaches the handler of extract_market_data
ExtractMarketDataUnguarded ==
    /\ scraped = NotScraped
    /\ \E fetched \in BOOLEAN :
          scraped' = IF fetched /\ raising = {}
                     THEN ScrapedDict(MarketData(soup, {}))
                     ELSE ScrapedNone(fetched)
    /\ UNCHANGED << soup, raising, writerVars, parseVars, agentVars >>

\* extract_market_data; fetched: the request succeeded
ExtractMarketData ==
    /\ scraped = NotScraped
    /\ \E fetched \in BOOLEAN :
          scraped' = IF fetched
                     THEN ScrapedDict(MarketData(soup, raising))
                     ELSE ScrapedNone(fetched)
    /\ UNCHANGED << soup, raising, writerVars, parseVars, agentVars >>

NextScrape == ExtractMarketData

SpecScrape == InitScrape /\ [][NextScrape]_vars

\* -------------------------------------------------- the agent on its own
\* The markets the Gamma API answers with.
\*   full:         every field, two tokens
\*   no_condition: the same without condition_id
\*   other:        a question, a condition_id and two tokens, one of them
\*                 without an outcome name
Markets ==
    LET full == [question |-> "Will X happen?", market_slug |-> "will-x-happen",
                 condition_id |-> "0xabc", category |-> "Politics",
                 end_date_iso |-> "2025-12-31", active |-> TRUE, closed |-> FALSE,
                 tokens |-> << [outcome |-> "Yes"], [outcome |-> "No"] >>]
    IN [full |-> full,
        no_condition |-> [k \in DOMAIN full \ {"condition_id"} |-> full[k]],
        other |-> [question |-> "Up or down?", condition_id |-> "0xdef",
                   tokens |-> << [outcome |-> "Up"], [token_id |-> "7"] >>]]

\* What the three requests of one cycle are answered with.  A request that
\* the code does not make is left out of the choice: it has the first
\* answer of its list.
Upstreams ==
    LET Answer(json) == [raised |-> "none", json |-> json]
        Raised(kind) == [raised |-> kind, json |-> <<>>]
        market == << Raised("RequestException"), Raised("Exception"),
                     Answer(<<>>), Answer(<< <<>> >>),
                     Answer(<< Markets.full >>), Answer(<< Markets.no_condition >>),
                     Answer(<< Markets.other >>) >>
        event == << Raised("RequestException"), Raised("Exception"),
                    Answer(<<>>), Answer(<< <<>> >>),
                    Answer(<< Markets.no_condition, Markets.full >>),
                    Answer(<< Markets.full, Markets.no_condition >>) >>
        clob == << Raised("Exception"),
                   Answer([count |-> 0]),
                   Answer([data |-> << [condition_id |-> "0x999",
                                        tokens |-> << [outcome |-> "Yes"] >>] >>]),
                   Answer([data |-> << [condition_id |-> "0xabc"],
                                       [condition_id |-> "0xdef"] >>]),
                   Answer([data |-> << [condition_id |-> "0x999",
                                        tokens |-> << [outcome |-> "Yes"] >>],
                                       [condition_id |-> "0xabc",
                                        tokens |-> << [outcome |-> "Yes"],
                                                      [outcome |-> "No"] >>],
                                       [condition_id |-> "0xdef",
                                        tokens |-> << [outcome |-> "Up"],
                                                      [token_id |-> "7"] >>] >>]) >>
        MarketFound(u) == DOMAIN GetMarketBySlug(u.market) # {}
        Normalized(u) ==
            IF MarketFound(u) THEN GetMarketBySlug(u.market)
            ELSE IF Len(GetMarketsForEvent(u.event)) > 0
                 THEN GetMarketsForEvent(u.event)[1] ELSE <<>>
    IN {u \in [market : {market[i] : i \in 1..Len(market)},
               event : {event[i] : i \in 1..Len(event)},
               clob : {clob[i] : i \in 1..Len(clob)}] :
           /\ (MarketFound(u) \/ u.market.raised = "Exception") => u.event = event[1]
           /\ Get(Normalized(u), "condition_id", "") = "" => u.clob = clob[1]}

\* How the calls of one cycle end: the fetch ("none" or "KeyboardInterrupt",
\* the exceptions of the requests being part of the upstream), the header
\* read, the header write and the append.  A call that comes after an
\* exception that ends the cycle is not made and has no fault.
Ends ==
    LET Fault == {"none", "HttpError", "Exception", "KeyboardInterrupt"}
    IN {e \in [fetch : {"none", "KeyboardInterrupt"}, read : Fault, write : Fault,
               append : Fault] :
           /\ e.fetch # "none" => e.read = "none"
           /\ e.read \notin {"none", "HttpError"} => e.write = "none"
           /\ e.write # "none" => e.append = "none"}

InitAgent ==
    /\ agent = "starting"
    /\ sheet \in {<<>>, << << "timestamp", "market_title" >> >>}
    /\ cycles = <<>>
    /\ WriterIdle
    /\ ParseIdle
    /\ ScrapeIdle

\* run_scheduled_update, called by start_monitoring at line 103 (from is
\* "starting") or by schedule.run_pending() in the loop (from is "loop").
\* Whatever leaves update_price_data and is an Exception is logged; any
\* other exception leaves start_monitoring, unless it is a KeyboardInterrupt
\* in the loop, which ends the loop.
RunScheduledUpdate(from) ==
    /\ agent = from
    /\ Len(cycles) < MaxCycles
    /\ \E upstream \in Upstreams, ends \in Ends :
          LET updated == UpdatePriceData(sheet, upstream, ends, Len(cycles) + 1)
              escaped == IF ExceptException(updated.raised) THEN "none"
                         ELSE updated.raised
          IN /\ sheet' = updated.sheet
             /\ cycles' = Append(cycles,
                    [price_data |-> updated.fetched,
                     raised |-> updated.raised,
                     result |-> IF escaped # "none" THEN "cut"
                                ELSE IF updated.value THEN "success"
                                ELSE "failed"])
             /\ agent' = IF escaped = "none" THEN "loop"
                         ELSE IF from = "loop" /\ escaped = "KeyboardInterrupt"
                              THEN "stopped"
                         ELSE "raised"
    /\ UNCHANGED << writerVars, parseVars, scrapeVars >>

\* the initial update of start_monitoring
InitialUpdate == RunScheduledUpdate("starting")

\* a tick of the scheduler at which the job is due
RunPending == RunScheduledUpdate("loop")

\* the interrupt signal arrives while no cycle runs: in time.sleep or in
\* schedule.run_pending() with no job due
Interrupt ==
    /\ agent = "loop"
    /\ agent' = "stopped"
    /\ UNCHANGED << sheet, cycles, writerVars, parseVars, scrapeVars >>

NextAgent == InitialUpdate \/ RunPending \/ Interrupt

SpecAgent == InitAgent /\ [][NextAgent]_vars

\* ---------------------------------------------------- reading a document
IsEntryStart(line) == StartsWith(line, EntryMarker)

IsStubStart(line) == StartsWith(line, ErrorMarker)

IsFooter(line) ==
    StartsWith(line, << "*Older entries truncated (showing last " >>)

\* a str of spaces, tabs and newlines only
WhitespaceOnly(doc) ==
    \A i \in 1..Len(doc) : \A k \in 1..Len(doc[i]) : doc[i][k] \in {" ", "\t"}

\* the entry-start lines of a document, top to bottom
EntryHeads(doc) == SelectSeq(doc, IsEntryStart)

EntryCount(doc) == Len(EntryHeads(doc))

StubCount(doc) == Len(SelectSeq(doc, IsStubStart))

FooterCount(doc) == Len(SelectSeq(doc, IsFooter))

\* the lines of an entry from its heading to its closing rule
Block(entry) == SubSeq(entry, 2, Len(entry) - 2)

\* the j-th entry of doc, top to bottom, is the whole of entry
HoldsAt(doc, j, entry) ==
    LET starts == EntryStarts(doc, Len(doc))
    IN /\ j <= Len(starts)
       /\ starts[j] + Len(Block(entry)) - 1 <= Len(doc)
       /\ SubSeq(doc, starts[j], starts[j] + Len(Block(entry)) - 1) = Block(entry)

Min(a, b) == IF a < b THEN a ELSE b

Reverse(seq) == [i \in 1..Len(seq) |-> seq[Len(seq) + 1 - i]]

Take(seq, n) == SubSeq(seq, 1, Min(n, Len(seq)))

FooterTail(doc, cap) ==
    /\ Len(doc) >= 3
    /\ SubSeq(doc, Len(doc) - 2, Len(doc))
         = << << "---" >>, TruncationFooter(cap), <<>> >>

InitialText == (CHOOSE f \in InitialFiles : f.origin = origin).text

\* every invocation so far returned without any exception and wrote an entry
\* rendered from a well-formed record
CleanRun ==
    /\ faults = 0
    /\ \A i \in 1..Len(log) : ~log[i].format_raised

\* ------------------------------------------------------------------ C1
\* C1: once the file has been written by a merge that completed, with a cap
\* max_entries >= 1, the document never holds more entry-start lines than the
\* cap; the same holds of the text every completed merge returns.
C1_EntryCountWithinCap ==
    /\ (/\ max_entries >= 1
        /\ version >= 1
        /\ \A i \in 1..Len(log) : ~log[i].combine_raised)
       => EntryCount(file) <= max_entries
    /\ (last.returned /\ ~last.combine_raised /\ max_entries >= 1)
       => EntryCount(last.updated_content) <= max_entries

\* a merge has just dropped the oldest entry and the document sits at the cap
C1_Witness ==
    /\ max_entries >= 1
    /\ last.returned /\ ~last.combine_raised /\ last.value
    /\ EntryCount(last.existing_content) = max_entries
    /\ EntryCount(file) = max_entries
    /\ FooterTail(file, max_entries)

\* ------------------------------------------------------------------ C2
\* C2: after k serialized merges of well-formed entries into an empty
\* document with cap M >= 1, the entries of the document, top to bottom, are
\* the min(k, M) most recently merged ones, newest first, each one whole.
C2_NewestFirst ==
    (/\ origin \in {"absent", "blank"}
     /\ max_entries >= 1
     /\ CleanRun)
    => LET merged == Reverse([i \in 1..Len(log) |-> log[i].new_entry])
           kept == Take(merged, max_entries)
       IN /\ EntryCount(file) = Len(kept)
          /\ \A j \in 1..Len(kept) : HoldsAt(file, j, kept[j])

\* three distinct merges under a cap of two: the oldest entry is gone
C2_Witness ==
    /\ origin = "absent"
    /\ max_entries = 2
    /\ CleanRun
    /\ Len(log) = 3
    /\ log[1].new_entry # log[2].new_entry
    /\ log[2].new_entry # log[3].new_entry
    /\ EntryCount(file) = 2

\* ------------------------------------------------------------------ C3
\* the last invocation merged a well-formed entry and its merge completed
MergedEntry == last.returned /\ ~last.combine_raised /\ ~last.format_raised

\* C3 as stated: for every document with N entries and every cap M < N + 1,
\* merging one new entry yields exactly M entries plus a truncation footer.
C3_AsStated ==
    (/\ MergedEntry
     /\ max_entries < EntryCount(last.existing_content) + 1)
    => /\ EntryCount(last.updated_content) = max_entries
       /\ FooterTail(last.updated_content, max_entries)

\* C3 amended: for every document with N entries and every cap M with
\* 1 <= M < N + 1, merging one new Market Update entry yields a document with
\* exactly M entries that ends in the one truncation footer it holds.
C3_TruncatesToCap ==
    (/\ MergedEntry
     /\ max_entries >= 1
     /\ max_entries < EntryCount(last.existing_content) + 1)
    => /\ EntryCount(last.updated_content) = max_entries
       /\ FooterTail(last.updated_content, max_entries)
       /\ FooterCount(last.updated_content) = 1

\* a merge into a document that held more entries than the cap
C3_Witness ==
    /\ MergedEntry
    /\ max_entries >= 1
    /\ EntryCount(last.existing_content) > max_entries
    /\ file = last.updated_content
    /\ FooterCount(file) = 1

\* ------------------------------------------------------------------ C4
HeaderShape(doc) ==
    /\ Len(doc) >= 7
    /\ StartsWith(doc[1], H1)
    /\ doc[2] = <<>>
    /\ doc[3] = << "*Automated monitoring of Polymarket prediction markets*" >>
    /\ doc[4] = <<>>
    /\ StartsWith(doc[5], << "**Started:** " >>)
    /\ StartsWith(doc[6], << "**Update Interval:** " >>)
    /\ doc[7] = <<>>

\* C4: merging into an empty or whitespace-only document yields the header
\* block, with the document's only level-1 heading as its first line, followed
\* at once by the new entry; no line of the input is kept and the new entry
\* is the only entry.
C4_BlankDocumentGetsHeader ==
    (/\ last.returned /\ ~last.combine_raised
     /\ WhitespaceOnly(last.existing_content))
    => LET out == last.updated_content
       IN /\ HeaderShape(out)
          /\ Cardinality({i \in 1..Len(out) : StartsWith(out[i], H1)}) = 1
          /\ Len(out) = 7 + Len(last.new_entry)
          /\ SubSeq(out, 8, Len(out)) = last.new_entry
          /\ EntryCount(out) + StubCount(out) = 1

\* the first write into a whitespace-only file
C4_Witness ==
    /\ origin = "blank"
    /\ Len(log) = 1
    /\ last.existing_content = InitialText
    /\ ~last.combine_raised /\ last.value
    /\ file = last.updated_content

\* ------------------------------------------------------------------ C5
Capped(n) == IF max_entries = 0 THEN n ELSE Min(n, max_entries)

\* the last two invocations merged the same well-formed entry, one after the
\* other, into a non-empty document, with the cap disabled or >= 2
SameEntryTwice ==
    /\ prev.returned
    /\ LET a == prev
           b == last
       IN /\ a.new_entry = b.new_entry
          /\ ~a.format_raised /\ ~a.combine_raised /\ ~a.read_raised /\ a.value
          /\ ~b.format_raised /\ ~b.combine_raised /\ ~b.read_raised
          /\ b.existing_content = a.updated_content
          /\ ~WhitespaceOnly(a.existing_content)
    /\ (max_entries = 0 \/ max_entries >= 2)

\* C5 as stated: merging the same entry twice yields two copies at entry
\* positions 0 and 1 and the entry count grows by exactly one per merge.
C5_AsStated ==
    SameEntryTwice
    => LET a == prev
           b == last
       IN /\ HoldsAt(b.updated_content, 1, b.new_entry)
          /\ HoldsAt(b.updated_content, 2, b.new_entry)
          /\ EntryCount(a.updated_content) = EntryCount(a.existing_content) + 1
          /\ EntryCount(b.updated_content) = EntryCount(a.updated_content) + 1

\* C5 amended: merging the same entry twice yields two copies at entry
\* positions 0 and 1 (no deduplication); the entry count grows by exactly one
\* per merge until it reaches the cap and then stays at the cap.
C5_NoDeduplication ==
    SameEntryTwice
    => LET a == prev
           b == last
           n == EntryCount(a.existing_content)
       IN /\ HoldsAt(b.updated_content, 1, b.new_entry)
          /\ HoldsAt(b.updated_content, 2, b.new_entry)
          /\ EntryCount(a.updated_content) = Capped(n + 1)
          /\ EntryCount(b.updated_content) = Capped(n + 2)

\* the same entry merged twice into a document that holds an older entry
C5_Witness ==
    /\ SameEntryTwice
    /\ EntryCount(prev.existing_content) = 1
    /\ EntryCount(file) = Capped(3)
    /\ file = last.updated_content

\* ------------------------------------------------------------------ C6
IsHead(line) == IsEntryStart(line) \/ IsStubStart(line)

\* the headings of the entries and error stubs of a document, top to bottom
Heads(doc) == SelectSeq(doc, IsHead)

\* C6: with max_entries = 0 and no exception, the document holds the heading
\* of every entry merged so far, newest first, above the entries it started
\* with, and no truncation footer.
C6_CapDisabled ==
    (max_entries = 0 /\ faults = 0)
    => /\ Heads(file)
            = Reverse([i \in 1..Len(log) |-> log[i].new_entry[2]])
              \o Heads(InitialText)
       /\ FooterCount(file) = 0

\* three merges with the cap disabled
C6_Witness ==
    /\ max_entries = 0 /\ faults = 0
    /\ Len(log) = 3
    /\ Len(Heads(file)) >= 3

\* ------------------------------------------------------------------ C7
IsHeaderLine(line) ==
    \/ StartsWith(line, H1)
    \/ line = << "*Automated monitoring of Polymarket prediction markets*" >>
    \/ StartsWith(line, << "**Started:** " >>)
    \/ StartsWith(line, << "**Update Interval:** " >>)

\* C7: a document created by this system keeps its four header lines, all of
\* them above the first entry, after any sequence of merges.
C7_HeaderBlockLeads ==
    (origin \in {"absent", "blank"} /\ version >= 1 /\ faults = 0)
    => /\ Len(SelectSeq(file, IsHeaderLine)) = 4
       /\ \A i, j \in 1..Len(file) :
             (IsHeaderLine(file[i]) /\ IsHead(file[j])) => i < j

\* ------------------------------------------------------------------ C8
\* C8: when the existing document is non-blank and its first line is no
\* level-1 heading, the merge puts the new entry on top and keeps the existing
\* lines, in order, below it; the cap alone may cut the tail, and never into
\* the new entry.
C8_MalformedHeaderFallback ==
    (/\ last.returned /\ ~last.combine_raised
     /\ ~WhitespaceOnly(last.existing_content)
     /\ ~StartsWith(last.existing_content[1], H1))
    => LET out == last.updated_content
           full == last.new_entry \o last.existing_content
       IN IF max_entries = 0 \/ EntryCount(full) <= max_entries
          THEN out = full
          ELSE \E c \in Len(last.new_entry)..Len(full) :
                  /\ out = SubSeq(full, 1, c)
                           \o << << "---" >>, TruncationFooter(max_entries), <<>> >>
                  /\ EntryCount(out) = max_entries

\* a second merge into the hand-edited file that has no title line
C8_Witness ==
    /\ origin = "noheading"
    /\ Len(log) = 2
    /\ prev.returned /\ ~prev.combine_raised
    /\ last.existing_content = prev.updated_content
    /\ ~StartsWith(last.existing_content[1], H1)
    /\ ~last.combine_raised /\ ~last.read_raised
    /\ file = last.updated_content

\* ------------------------------------------------------------------ C9
CapEntries(heads) == IF max_entries = 0 THEN heads ELSE Take(heads, max_entries)

\* C9: when the last two invocations both read the file before either wrote
\* it, the file holds the entry of the later writer alone on top of the
\* content both read (the other entry is lost); when the later one read only
\* after the earlier one had written, the file holds both entries.
C9_LostUpdate ==
    (/\ prev.returned
     /\ faults = 0
     /\ ~prev.format_raised
     /\ ~last.format_raised)
    => LET a == prev
           b == last
           read == EntryHeads(a.existing_content)
       IN /\ b.read_version = a.read_version
             => EntryHeads(file) = CapEntries(<< b.new_entry[2] >> \o read)
          /\ (/\ a.version_before = a.read_version
              /\ b.read_version = a.version_before + 1
              /\ b.version_before = b.read_version)
             => EntryHeads(file)
                  = CapEntries(<< b.new_entry[2], a.new_entry[2] >> \o read)

\* two overlapping invocations with different entries and no cap: one entry
\* more than was read, where two were written
C9_Witness ==
    /\ prev.returned
    /\ faults = 0
    /\ max_entries = 0
    /\ LET a == prev
           b == last
       IN /\ ~a.format_raised /\ ~b.format_raised
          /\ a.new_entry # b.new_entry
          /\ b.read_version = a.read_version
          /\ EntryCount(file) = EntryCount(a.existing_content) + 1
          /\ EntryHeads(file)[1] = b.new_entry[2]

\* ----------------------------------------------------------------- C10
\* a document holds an error stub with its exception text
HasStub(doc) ==
    \E i \in 1..(Len(doc) - 1) :
        /\ IsStubStart(doc[i])
        /\ Len(doc[i + 1]) = 2
        /\ doc[i + 1][1] = "Failed to format market data: "

\* the block of entry stands whole somewhere in doc
Carries(doc, entry) ==
    \E i \in 1..Len(doc) :
        /\ i + Len(Block(entry)) - 1 <= Len(doc)
        /\ SubSeq(doc, i, i + Len(Block(entry)) - 1) = Block(entry)

\* every line of existing is in out, in order, around the lines of entry
Preserved(existing_content, entry, out) ==
    \/ WhitespaceOnly(existing_content)
    \/ \E idx \in 0..Len(existing_content) :
          out = SubSeq(existing_content, 1, idx) \o entry
                \o SubSeq(existing_content, idx + 1, Len(existing_content))

\* C10 as stated: after an exception in formatting or in combining, the
\* document written carries a new Error stub with the exception text, the
\* existing content is still present, and write_market_data returns True.
C10_AsStated ==
    (/\ last.returned /\ ~last.write_raised
     /\ (last.format_raised \/ last.combine_raised))
    => /\ HasStub(last.updated_content)
       /\ StubCount(last.updated_content) = StubCount(last.existing_content) + 1
       /\ Preserved(last.existing_content, last.new_entry, last.updated_content)
       /\ last.value
       /\ file = last.updated_content

\* C10 amended: unless the file write itself raises, the cycle is written and
\* write_market_data returns True.  After an exception in formatting the
\* document carries the new Error stub with the exception text, and the
\* existing content is still present, one stub more than before, when it held
\* no more entries than the cap (or the cap is off).  After an exception in combining no stub is written: the
\* document is the existing content with the new entry appended below it.
C10_ExceptionKeepsCycle ==
    (/\ last.returned /\ ~last.write_raised
     /\ (last.format_raised \/ last.combine_raised))
    => LET out == last.updated_content
           old == last.existing_content
       IN /\ last.value
          /\ file = out
          /\ last.format_raised
             => /\ HasStub(out)
                /\ IsStubStart(last.new_entry[2])
                /\ Carries(out, last.new_entry)
                /\ (max_entries = 0 \/ EntryCount(old) <= max_entries)
                   => /\ Preserved(old, last.new_entry, out)
                      /\ StubCount(out) = StubCount(old) + 1
          /\ last.combine_raised
             => /\ out = old \o last.new_entry
                /\ ~last.format_raised => StubCount(out) = StubCount(old)

\* a cycle whose combining raised, then one whose formatting raised on the
\* document it left, both written
C10_Witness ==
    /\ prev.returned /\ prev.value
    /\ prev.combine_raised /\ ~prev.format_raised
    /\ last.value
    /\ last.format_raised /\ ~last.combine_raised
    /\ last.existing_content = prev.updated_content
    /\ file = last.updated_content

\* ------------------------------------------------- reading a parsed text
Parsed == outcome # NotParsed

\* the decimals of the number in the text, in ten-thousandths
DecimalsE4 ==
    IF parts.decimals = << ".", "5" >> THEN 5000
    ELSE IF parts.decimals = << ".", "2", "5" >> THEN 2500
    ELSE 0

\* the number N of the text, in ten-thousandths
NumberE4 == parts.number * 10000 + DecimalsE4

\* the first number of the text: the label "Over 2.5 " brings one of its own
FirstNumberE4 ==
    IF Len(parts.before) > 4 THEN 25000 ELSE NumberE4

\* the text holds label text besides its number
Labelled == parts.before # <<>> \/ parts.after # <<>>

\* a well-formed percentage fragment: a number with '%' right behind it
PercentageFragment == parts.numbered /\ parts.suffix = << "%" >>

\* a number with neither a cents marker nor a percent sign in the text
PlainFragment == parts.numbered /\ parts.suffix = <<>>

\* C11 as stated: every well-formed percentage fragment, with or without
\* label text, yields an outcome whose price is N/100 and whose name is the
\* fragment with the percentage substring removed.
C11_AsStated ==
    (Parsed /\ PercentageFragment)
        => /\ outcome.returned = "outcome"
           /\ outcome.price = Float(NumberE4 \div 100)
           /\ outcome.name = parts.before \o parts.after

\* C11 (amended): a well-formed percentage fragment with label text yields an
\* outcome whose price is N/100 and whose name is the fragment with the
\* percentage substring removed and the whitespace at both ends stripped; a
\* fragment that is a percentage and nothing else yields no outcome.
C11_PercentageFragment ==
    (Parsed /\ PercentageFragment)
        => IF Labelled
           THEN /\ outcome.returned = "outcome"
                /\ outcome.price = Float(NumberE4 \div 100)
                /\ outcome.name = Strip(parts.before \o parts.after)
           ELSE outcome = NoOutcome

\* "Yes 37%" has been parsed into the name "Yes" and the price 0.37
C11_Witness ==
    /\ text = << "Y", "e", "s", " ", "3", "7", "%" >>
    /\ outcome = Outcome(<< "Y", "e", "s" >>, Float(3700))

\* C12 as stated: every fragment whose numeric value is above 100, with neither
\* a cents marker nor a percent sign, yields the price value/100.
C12_AsStated ==
    (Parsed /\ PlainFragment /\ FirstNumberE4 > 100 * 10000)
        => /\ outcome.returned = "outcome"
           /\ outcome.price = Float(FirstNumberE4 \div 100)

\* C12 (amended): a fragment whose first number is above 100, with neither a
\* cents marker nor a percent sign, yields the price value/100 when it holds
\* label text besides the number, and no outcome when it holds none.
C12_LargeNumberIsCents ==
    (Parsed /\ PlainFragment /\ FirstNumberE4 > 100 * 10000)
        => IF Labelled
           THEN /\ outcome.returned = "outcome"
                /\ outcome.price = Float(FirstNumberE4 \div 100)
           ELSE outcome = NoOutcome

\* "Yes 101" has been parsed into the price 1.01
C12_Witness ==
    /\ text = << "Y", "e", "s", " ", "1", "0", "1" >>
    /\ outcome.returned = "outcome"
    /\ outcome.price = Float(10100)

\* C13 as stated: every fragment whose numeric value is at most 100, with
\* neither a cents marker nor a percent sign, yields the literal value as the
\* price.
C13_AsStated ==
    (Parsed /\ PlainFragment /\ FirstNumberE4 <= 100 * 10000)
        => /\ outcome.returned = "outcome"
           /\ outcome.price = Float(FirstNumberE4)

\* C13 (amended): a fragment whose first number is at most 100, with neither a
\* cents marker nor a percent sign, yields the literal value as the price when
\* it holds label text besides the number ("Yes 45" gives 45, "Yes 100" gives
\* 100) and no outcome when it holds none; the boundary is exact, a value
\* above 100 is never kept as it stands.
C13_SmallNumberIsLiteral ==
    /\ (Parsed /\ PlainFragment /\ Labelled)
          => (/\ outcome.returned = "outcome"
              /\ (outcome.price = Float(FirstNumberE4))
                     <=> (FirstNumberE4 <= 100 * 10000))
    /\ (Parsed /\ PlainFragment /\ ~Labelled) => (outcome = NoOutcome)

\* "Yes 100" has been parsed into the price 100
C13_Witness ==
    /\ text = << "Y", "e", "s", " ", "1", "0", "0" >>
    /\ outcome.returned = "outcome"
    /\ outcome.price = Float(1000000)

\* ------------------------------------------------- reading a scraped record
\* a page with one h1 and the three buttons was fetched and nothing raised
ScrapedCleanly(page) ==
    soup = page /\ raising = {} /\ scraped.returned = "dict"

\* C14 as stated: for the page with one h1 "Will X happen?" and the outcome
\* buttons "Yes 65%", "No 35%" and "Unsure" the record has that title and
\* exactly one sub-market, with the outcomes "Yes " at 0.65, "No " at 0.35 and
\* "Unsure" without a price, in this order.
C14_AsStated ==
    ScrapedCleanly(Page.card)
        => /\ scraped.data.title = << "W", "i", "l", "l", " ", "X", " ", "h", "a", "p", "p", "e", "n", "?" >>
           /\ Len(scraped.data.markets) = 1
           /\ scraped.data.markets[1].outcomes
                 = << Outcome(<< "Y", "e", "s", " " >>, Float(6500)),
                      Outcome(<< "N", "o", " " >>, Float(3500)),
                      Outcome(<< "U", "n", "s", "u", "r", "e" >>, NoPrice) >>

\* C14 (amended): when the three buttons lie in a market container the record
\* has the title "Will X happen?" and exactly one sub-market, with the
\* outcomes "Yes" at 0.65, "No" at 0.35 and "Unsure" without a price, in this
\* order, the names stripped; when they lie in no market container the one
\* sub-market is the fallback's "Market Prices" and holds "Yes" and "No" only.
C14_EndToEnd ==
    /\ ScrapedCleanly(Page.card)
          => /\ scraped.data.title = << "W", "i", "l", "l", " ", "X", " ", "h", "a", "p", "p", "e", "n", "?" >>
             /\ Len(scraped.data.markets) = 1
             /\ scraped.data.markets[1].outcomes
                   = << Outcome(<< "Y", "e", "s" >>, Float(6500)),
                        Outcome(<< "N", "o" >>, Float(3500)),
                        Outcome(<< "U", "n", "s", "u", "r", "e" >>, NoPrice) >>
    /\ ScrapedCleanly(Page.loose)
          => /\ scraped.data.title = << "W", "i", "l", "l", " ", "X", " ", "h", "a", "p", "p", "e", "n", "?" >>
             /\ Len(scraped.data.markets) = 1
             /\ scraped.data.markets[1].question =
                   << "M", "a", "r", "k", "e", "t", " ", "P", "r", "i", "c", "e", "s" >>
             /\ scraped.data.markets[1].outcomes
                   = << Outcome(<< "Y", "e", "s" >>, Float(6500)),
                        Outcome(<< "N", "o" >>, Float(3500)) >>

\* the page with the market card has been scraped into three outcomes
C14_Witness ==
    /\ ScrapedCleanly(Page.card)
    /\ Len(scraped.data.markets[1].outcomes) = 3
    /\ scraped.data.markets[1].outcomes[1].name = << "Y", "e", "s" >>

\* the fields of the record that have an extractor, and their defaults
Fields ==
    {"title", "description", "markets", "volume", "liquidity", "end_date", "status"}

FieldDefault ==
    [title |-> << "U", "n", "k", "n", "o", "w", "n", " ", "M", "a", "r", "k", "e", "t" >>,
     description |-> << "N", "o", " ", "d", "e", "s", "c", "r", "i", "p", "t", "i", "o", "n", " ", "a",
                     "v", "a", "i", "l", "a", "b", "l", "e" >>,
     markets |-> <<>>,
     volume |-> << "V", "o", "l", "u", "m", "e", " ", "n", "o", "t", " ", "f", "o", "u", "n", "d" >>,
     liquidity |-> << "L", "i", "q", "u", "i", "d", "i", "t", "y", " ",
                   "n", "o", "t", " ", "f", "o", "u", "n", "d" >>,
     end_date |-> << "E", "n", "d", " ", "d", "a", "t", "e", " ", "n", "o", "t", " ", "f", "o", "u", "n", "d" >>,
     status |-> << "U", "n", "k", "n", "o", "w", "n" >>]

BaseKeys ==
    << "timestamp", "market_title", "market_slug", "condition_id", "category",
       "end_date", "active", "closed" >>

\* the keys of a dict, in insertion order
Keys(dict) == [i \in 1..Len(dict) |-> dict[i].key]

\* the cycles in which a payload reached the normalization
NormalizedCycles == {i \in 1..Len(cycles) : cycles[i].price_data.returned = "dict"}

\* C16: normalizing a payload that lacks condition_id yields a record whose
\* keys are exactly timestamp, market_title, market_slug, condition_id,
\* category, end_date, active and closed, with condition_id "Unknown" and
\* nothing behind them; get_simplified_price_data returns it, it does not
\* raise.
C16_PayloadWithoutConditionId ==
    \A i \in NormalizedCycles :
        "condition_id" \notin DOMAIN cycles[i].price_data.market_data
            => /\ Keys(cycles[i].price_data.data) = BaseKeys
               /\ cycles[i].price_data.data[4].value = "Unknown"
               /\ cycles[i].price_data.prices = <<>>

\* a payload with tokens and without condition_id has been normalized
C16_Witness ==
    /\ Len(cycles) > 0
    /\ cycles[1].price_data.returned = "dict"
    /\ DOMAIN cycles[1].price_data.market_data = DOMAIN Markets.no_condition
    /\ Len(cycles[1].price_data.data) = 8
    /\ cycles[1].price_data.data[2].value = "Will X happen?"

\* the outcome names of the tokens of a payload
TokenOutcomes(payload) ==
    LET tokens == IF "tokens" \in DOMAIN payload THEN payload.tokens ELSE <<>>
    IN [i \in 1..Len(tokens) |->
           IF "outcome" \in DOMAIN tokens[i] THEN tokens[i].outcome ELSE "Unknown"]

\* the entries of a normalized record behind the eight base entries
PerOutcome(i) == SubSeq(cycles[i].price_data.data, 9, Len(cycles[i].price_data.data))

\* C17 as stated: every per-outcome entry of a normalized record is keyed
\* '{outcome}_price' for an outcome of the payload.
C17_AsStated ==
    \A i \in NormalizedCycles :
        \A k \in 1..Len(PerOutcome(i)) :
            \E n \in 1..Len(TokenOutcomes(cycles[i].price_data.market_data)) :
                PerOutcome(i)[k].key
                    = TokenOutcomes(cycles[i].price_data.market_data)[n] \o "_price"

\* C17: the per-outcome entries of a normalized record are the entries of
\* the CLOB lookup, keyed by the bare outcome name and holding the
\* placeholder 0.5, when the lookup returns a mapping that is not empty;
\* otherwise they are one entry '{outcome}_price' holding "N/A" for each
\* token of a payload whose condition_id is truthy; there is no other
\* per-outcome entry.
C17_PerOutcomeEntries ==
    \A i \in NormalizedCycles :
        \A fetched \in {cycles[i].price_data} :
            /\ Keys(SubSeq(fetched.data, 1, 8)) = BaseKeys
            /\ IF Len(fetched.prices) > 0
               THEN /\ PerOutcome(i) = fetched.prices
                    /\ \A k \in 1..Len(fetched.prices) :
                          fetched.prices[k].value = Float(5000)
               ELSE IF /\ "condition_id" \in DOMAIN fetched.market_data
                       /\ fetched.market_data.condition_id # ""
                    THEN /\ Keys(PerOutcome(i))
                              = [n \in 1..Len(TokenOutcomes(fetched.market_data)) |->
                                    TokenOutcomes(fetched.market_data)[n] \o "_price"]
                         /\ \A k \in 1..Len(PerOutcome(i)) :
                               PerOutcome(i)[k].value = "N/A"
               ELSE PerOutcome(i) = <<>>

\* one record holds the CLOB placeholders under "Yes" and "No", another
\* one "N/A" under "Yes_price" and "No_price"
C17_Witness ==
    /\ Len(cycles) = 2
    /\ cycles[1].price_data.returned = "dict"
    /\ cycles[2].price_data.returned = "dict"
    /\ Keys(PerOutcome(1)) = << "Yes", "No" >>
    /\ PerOutcome(1)[1].value = Float(5000)
    /\ Keys(PerOutcome(2)) = << "Yes_price", "No_price" >>

\* ----------------------------------------------------------------- the sheet
\* C18: once row 1 of the sheet holds a header no later call of
\* write_price_data writes to row 1 again, whatever the key set of the later
\* record and whatever the outcome of the header read.
C18_HeaderWrittenOnce ==
    [][(Len(sheet) > 0 /\ Len(sheet[1]) > 0)
          => (Len(sheet') > 0 /\ sheet'[1] = sheet[1])]_vars

\* ------------------------------------------------------------ the scheduler
\* C19: a cycle that no interrupt ends returns to the scheduler, whatever
\* failed in it: run_scheduled_update returns normally and the loop goes on.
C19_FailureContained ==
    [][(Len(cycles') > Len(cycles) /\ cycles'[Len(cycles')].raised # "KeyboardInterrupt")
          => /\ agent' = "loop"
             /\ cycles'[Len(cycles')].raised = "none"
             /\ cycles'[Len(cycles')].result \in {"success", "failed"}]_vars

\* a cycle has failed and the cycle after it has succeeded
C19_Witness ==
    /\ Len(cycles) = 2
    /\ cycles[1].result = "failed"
    /\ cycles[2].result = "success"
    /\ agent = "loop"
    /\ Len(sheet) = 2

\* C20: every cycle that has started has run to its end: none is cut short
\* by the interrupt signal.
C20_NoCycleCutShort ==
    \A i \in 1..Len(cycles) : cycles[i].result # "cut"

\* ----------------------------------------------------------------- C21
\* C21: a merge into a non-empty document that this system wrote puts the
\* heading of the new entry below the title, the description, the Started
\* and the Update Interval line of the header and above every entry and
\* stub the document held.
C21_NewEntryUnderHeaderBlock ==
    (/\ origin \in {"absent", "blank"}
     /\ CleanRun
     /\ last.returned
     /\ ~WhitespaceOnly(last.existing_content))
    => \E k \in 1..Len(last.updated_content) :
          /\ last.updated_content[k] = last.new_entry[2]
          /\ \A i \in 1..Len(last.updated_content) :
                /\ IsHeaderLine(last.updated_content[i]) => i < k
                /\ IsHead(last.updated_content[i]) => k <= i

\* ----------------------------------------------------------------- C22
\* the number of entry-start lines a completed merge held before the cap
\* was enforced: those of the document read, and the new one unless the
\* record was rendered as an error stub
Inserted ==
    EntryCount(last.existing_content) + (IF last.format_raised THEN 0 ELSE 1)

\* the last invocation completed a merge that had to truncate
Truncating ==
    /\ last.returned /\ ~last.combine_raised
    /\ max_entries >= 1
    /\ Inserted > max_entries

\* the number a truncation footer states
Stated(line) == line[2]

\* C22 as stated: the footer of a truncating merge states the number of
\* entries that the merge dropped.
C22_AsStated ==
    Truncating
    => \E i \in 1..Len(last.updated_content) :
          /\ IsFooter(last.updated_content[i])
          /\ Stated(last.updated_content[i]) = ToString(Inserted - max_entries)

\* C22: the footer a truncating merge appends states the cap, the number of
\* entries that are kept ("showing last M updates"), whatever the number of
\* entries dropped; the footer and the blank line after it close the text.
C22_FooterStatesCap ==
    Truncating
    => \A n \in {Len(last.updated_content)} :
          /\ n >= 3
          /\ last.updated_content[n - 2] = << "---" >>
          /\ IsFooter(last.updated_content[n - 1])
          /\ Stated(last.updated_content[n - 1]) = ToString(max_entries)
          /\ last.updated_content[n - 1]
               = << "*Older entries truncated (showing last ",
                    ToString(max_entries), " updates)*" >>
          /\ last.updated_content[n] = <<>>

\* a merge dropped one entry under a cap of two, or two under a cap of one
C22_Witness ==
    /\ Truncating
    /\ Inserted - max_entries # max_entries
    /\ FooterCount(last.updated_content) = 1
    /\ file = last.updated_content

\* ----------------------------------------------------------------- C23
\* a text with a cents marker, a number and no percent sign
CentsFragment ==
    /\ parts.suffix = << Cent >>
    /\ parts.numbered \/ Len(parts.before) > 4

\* C23 as stated: every fragment with a cents marker and no percentage
\* yields the price value/100, the division applied once.
C23_AsStated ==
    (Parsed /\ CentsFragment)
        => /\ outcome.returned = "outcome"
           /\ outcome.price = Float(FirstNumberE4 \div 100)

\* C23 (amended): a fragment with a cents marker, a number and no percentage
\* yields the price value/100 of its first number, divided once whatever the
\* magnitude, when it holds label text besides the number and the marker,
\* and no outcome when it holds none.
C23_CentsDividedOnce ==
    (Parsed /\ CentsFragment)
        => IF Labelled
           THEN /\ outcome.returned = "outcome"
                /\ outcome.price = Float(FirstNumberE4 \div 100)
                /\ (NumberE4 > 100 * 10000 /\ Len(parts.before) <= 4)
                      => outcome.price.e4 > 10000
           ELSE outcome = NoOutcome

\* "Yes 102[cent]" has been parsed into the price 1.02
C23_Witness ==
    /\ text = << "Y", "e", "s", " ", "1", "0", "2", Cent >>
    /\ outcome.returned = "outcome"
    /\ outcome.price = Float(10200)

\* ----------------------------------------------------------------- C24
\* the text of the page that was fetched, in lower case
PageText ==
    LET all == GetText(soup, FALSE)
    IN [i \in 1..Len(all) |-> LowerChar(all[i])]

\* the status extractor ran to its end on the page that was fetched
StatusRead == scraped.returned = "dict" /\ "status" \notin raising

\* C24: the status of a page whose text holds 'closed' or 'ended', in any
\* case, is "Closed", also when the text holds 'active' or 'live' as well;
\* otherwise it is "Active" when the text holds 'active' or 'live', and
\* "Unknown" when it holds none of the four words.
C24_ClosedBeforeActive ==
    StatusRead
    => \A t \in {PageText} :
         \A closed \in {Contains(t, << "c", "l", "o", "s", "e", "d" >>)
                          \/ Contains(t, << "e", "n", "d", "e", "d" >>)} :
           \A active \in {Contains(t, << "a", "c", "t", "i", "v", "e" >>)
                            \/ Contains(t, << "l", "i", "v", "e" >>)} :
              /\ closed => scraped.data.status = << "C", "l", "o", "s", "e", "d" >>
              /\ (~closed /\ active)
                    => scraped.data.status = << "A", "c", "t", "i", "v", "e" >>
              /\ (~closed /\ ~active)
                    => scraped.data.status = << "U", "n", "k", "n", "o", "w", "n" >>

\* the page that says "CLOSED, was live" has been read as closed
C24_Witness ==
    /\ soup = Page.hollow
    /\ StatusRead
    /\ Contains(PageText, << "l", "i", "v", "e" >>)
    /\ Contains(PageText, << "c", "l", "o", "s", "e", "d" >>)
    /\ scraped.data.status = << "C", "l", "o", "s", "e", "d" >>

\* ----------------------------------------------------------------- C25
\* one of the container selectors selects an element of the page
ContainerMatched ==
    FirstSelecting(soup,
        << Selector("testid*=", "market"), Selector("class", "market-card"),
           Selector("class", "market-item"), Selector("class", "outcome-card") >>) # 0

\* _extract_markets ran to its end on the page that was fetched
MarketsRead == scraped.returned = "dict" /\ "markets" \notin raising

\* the list holds the one synthetic market of the fallback scan
Synthetic(markets) ==
    /\ Len(markets) = 1
    /\ markets[1].question
         = << "M", "a", "r", "k", "e", "t", " ", "P", "r", "i", "c", "e", "s" >>

\* C25 as stated: when a container selector matched an element the markets
\* come from the containers of the first matching selector and the fallback
\* scan is not used.
C25_AsStated ==
    (MarketsRead /\ ContainerMatched)
    => /\ scraped.data.markets = StructuredMarkets(soup, raising)
       /\ ~Synthetic(scraped.data.markets)

\* C25 (amended): the fallback scan is used exactly when the containers of
\* the first matching selector yield no market, because no selector matched
\* or because none of the matched containers held an outcome; when they
\* yield a market the result comes from them alone.
C25_FallbackWhenNoMarket ==
    MarketsRead
    => \A structured \in {StructuredMarkets(soup, raising)} :
          /\ ~ContainerMatched => structured = <<>>
          /\ structured # <<>> => scraped.data.markets = structured
          /\ structured = <<>>
                => /\ scraped.data.markets = ExtractPricesFallback(soup, raising)
                   /\ scraped.data.markets = <<>> \/ Synthetic(scraped.data.markets)

\* the market card without outcomes gave no market and the price in the
\* running text was found by the fallback scan
C25_Witness ==
    /\ soup = Page.hollow
    /\ raising = {}
    /\ MarketsRead
    /\ ContainerMatched
    /\ StructuredMarkets(soup, raising) = <<>>
    /\ Synthetic(scraped.data.markets)
    /\ scraped.data.markets[1].outcomes
         = << Outcome(<< "Y", "e", "s" >>, Float(6500)) >>

\* ----------------------------------------------------------------- C26
\* per title strategy, in the order h1, [data-testid="event-title"],
\* .event-title, title: the text of the first element it selects, or nothing
TitleTexts ==
    LET selectors == << Selector("tag", "h1"),
                        Selector("testid=", << "event", "title" >>),
                        Selector("class", "event-title"),
                        Selector("tag", "title") >>
    IN [j \in 1..4 |->
          LET found == Select(soup, selectors[j])
          IN IF Len(found) > 0 THEN << GetText(found[1], TRUE) >> ELSE <<>>]

\* the strategies whose text is longer than 5 characters
ValidTitles(texts) == {j \in 1..4 : texts[j] # <<>> /\ Len(texts[j][1]) > 5}

First(set) == CHOOSE j \in set : \A i \in set : j <= i

\* _extract_title ran to its end on the page that was fetched
TitleRead == scraped.returned = "dict" /\ "title" \notin raising

\* C26 as stated: the title is the text of the first strategy whose text is
\* longer than 5 characters and "Unknown Market" when there is none, hence
\* never empty and never a text of 5 characters or less.
C26_AsStated ==
    TitleRead
    => \A texts \in {TitleTexts} :
          /\ scraped.data.title
               = IF ValidTitles(texts) # {}
                 THEN texts[First(ValidTitles(texts))][1]
                 ELSE << "U", "n", "k", "n", "o", "w", "n", " ", "M", "a", "r",
                         "k", "e", "t" >>
          /\ Len(scraped.data.title) > 5

\* C26 (amended): the title is the text of the first strategy whose text is
\* longer than 5 characters; when there is none it is the text of the title
\* element of the page as it stands, short or empty, and "Unknown Market"
\* only when the page has no title element.
C26_TitleChain ==
    TitleRead
    => \A texts \in {TitleTexts} :
          scraped.data.title
            = IF ValidTitles(texts) # {}
              THEN texts[First(ValidTitles(texts))][1]
              ELSE IF texts[4] # <<>> THEN texts[4][1]
              ELSE << "U", "n", "k", "n", "o", "w", "n", " ", "M", "a", "r",
                      "k", "e", "t" >>

\* the page whose only title text is "Odds" has been given the title "Odds"
C26_Witness ==
    /\ soup = Page.text
    /\ TitleRead
    /\ ValidTitles(TitleTexts) = {}
    /\ scraped.data.title = << "O", "d", "d", "s" >>

\* ----------------------------------------------------------------- C27
\* the Probability column of the row that was rendered
ProbabilityColumn == rendered[1][6]

\* C27: the row rendered for an outcome that was parsed from a labelled
\* percentage fragment "name N%" shows N%, to one decimal, in its
\* Probability column, for every N, also above 100.
C27_SameConvention ==
    (PercentageFragment /\ Labelled /\ rendered # NotRendered)
    => ProbabilityColumn = Fixed1(RoundDiv(NumberE4, 1000)) \o "%"

\* ----------------------------------------------------------------- C28
\* C28: with a cap M >= 1 and a document that started empty, after any
\* sequence of invocations whose merges completed the file holds at most one
\* truncation footer, and when it holds one the footer, with the rule above
\* and the blank line below it, is the end of the file.
C28_OneFooterLast ==
    (/\ origin \in {"absent", "blank"}
     /\ max_entries >= 1
     /\ \A i \in 1..Len(log) : ~log[i].combine_raised)
    => /\ FooterCount(file) <= 1
       /\ FooterCount(file) = 1 => FooterTail(file, max_entries)

\* two merges in a row have truncated: the second one read a document that
\* ended in a footer and wrote one that holds a single footer
C28_Witness ==
    /\ origin = "absent"
    /\ max_entries = 1
    /\ \A i \in 1..Len(log) : ~log[i].combine_raised
    /\ Truncating
    /\ FooterCount(last.existing_content) = 1
    /\ file = last.updated_content
    /\ FooterCount(file) = 1

\* ----------------------------------------------------------------- C29
\* the last invocation completed the merge of an error stub under a cap
StubMerged ==
    /\ last.returned /\ ~last.combine_raised /\ last.format_raised
    /\ max_entries >= 1

\* the stubs of doc that stand above its k-th entry-start line
StubsAbove(doc, k) ==
    Cardinality({i \in 1..Len(doc) :
                    /\ IsStubStart(doc[i])
                    /\ EntryCount(SubSeq(doc, 1, i)) < k})

\* C29 as stated: merging an error stub never truncates: the document
\* keeps the entries and the footers it had.
C29_AsStated ==
    StubMerged
    => /\ EntryCount(last.updated_content) = EntryCount(last.existing_content)
       /\ FooterCount(last.updated_content) = FooterCount(last.existing_content)
       /\ StubCount(last.updated_content) = StubCount(last.existing_content) + 1

\* C29 (amended): error stubs are not counted by the cap.  Merging a stub
\* into a document that holds no more entries than the cap leaves every line
\* of it in place and makes it longer by the stub, whatever the number of
\* stubs it holds; a stub merged into a document that holds more entries
\* than the cap is followed by the truncation to the cap.  A merge of either
\* kind keeps exactly the stubs that stand above the first dropped entry.
C29_StubsNotCounted ==
    (last.returned /\ ~last.combine_raised /\ max_entries >= 1)
    => LET out == last.updated_content
           old == last.existing_content
       IN /\ (last.format_raised /\ EntryCount(old) <= max_entries)
             => /\ Preserved(old, last.new_entry, out)
                /\ Len(out) > Len(old)
                /\ EntryCount(out) = EntryCount(old)
                /\ FooterCount(out) = FooterCount(old)
                /\ StubCount(out) = StubCount(old) + 1
          /\ (last.format_raised /\ EntryCount(old) > max_entries)
             => /\ EntryCount(out) = max_entries
                /\ FooterTail(out, max_entries)
          /\ StubCount(out)
               = IF last.format_raised
                 THEN 1 + StubsAbove(old, max_entries + 1)
                 ELSE StubsAbove(old, max_entries)

\* a stub was merged into a document that stood at its cap and held a stub:
\* nothing was dropped, and the document holds two stubs
C29_Witness ==
    /\ StubMerged
    /\ EntryCount(last.existing_content) = max_entries
    /\ StubCount(last.existing_content) = 1
    /\ file = last.updated_content
    /\ EntryCount(file) = max_entries
    /\ StubCount(file) = 2
    /\ FooterCount(file) = 0

\* ----------------------------------------------------------------- C30
\* get_last_update_time has returned without an exception of its own
Polled == polled # NotPolled /\ ~polled.raised

\* the invocations so far that rendered their record as an entry
Rendered == {i \in 1..Len(log) : ~log[i].format_raised}

\* the timestamp of the record of which entry is the rendering
StampOf(entry) ==
    (CHOOSE r \in Records :
        ~FormatRaises(r) /\ FormatMarketData(r, 0) = entry).timestamp

\* the date and the time, to the second, of an ISO-8601 timestamp
ToTheSecond(ts) == << ts[1], ts[3] >>

\* the date and the time in the heading of an entry
HeadingTime(line) == << line[6], line[8] >>

====
